---- MODULE Spec2Model ----
(***************************************************************************)
(* RNTupleModel (tree/ntuple/v7/src/RNTupleModel.cxx): the schema model of *)
(* an RNTuple, its projected fields, and the RUpdater that changes the     *)
(* schema of a live writer.                                                *)
(*                                                                         *)
(* A field is a record                                                     *)
(*   [fName, fStructure, fTypeName, fNRepetitions, fIsCardinality,         *)
(*    fSubFields]                                                          *)
(* whose fSubFields is the sequence of owned child fields.  A pointer to a *)
(* field of a tree is the sequence of child indices leading to it from the *)
(* root of the tree (<<>> is the root itself).  A qualified (dotted) field *)
(* name is the sequence of its segments.                                   *)
(***************************************************************************)
EXTENDS Integers, Sequences, FiniteSets, TLC

\* ---------------------------------------------------------------- bounds
\* Models the caller holds: models[1] comes from Create or CreateBare, the
\* others are clones.
MaxModels == 2
\* GetNewModelId is not called any more once it has returned this id.
MaxModelId == 3
\* Top-level fields (regular plus projected) attached to one model.
MaxFields == 2
\* Rows the writer appends.
MaxEntries == 1
\* Pages the allocator hands out.
MaxPages == 2
\* Scoped references to one pooled page that are alive at a time.
MaxRefs == 2
\* The largest argument of Evict.
MaxEvict == 2
\* The largest feature flag a descriptor can declare besides the test flag.
MaxFeature == 1
\* The width in bits of std::size_t, scaled down from 64.
SizeWidth == 6

VARIABLES
  gLastModelId,   \* static std::atomic<std::uint64_t> gLastModelId
  models,         \* slot -> NoModel or the RNTupleModel held there
  writer,         \* 0, or the slot whose model a live RNTupleWriter owns
  fNEntries,      \* RNTupleWriter::GetNEntries()
  fNewModelId,    \* RUpdater::fNewModelId
  fOpenChangeset, \* RUpdater::fOpenChangeset (added fields, added projected fields)
  sink,           \* the calls of RPageSink::UpdateSchema, in order
  token,          \* the REntry::RFieldToken the caller holds, or NoToken
  crashed,        \* the process died of a null dereference
  keptSchemaId,   \* history: the slots of the clones that kept their source's schema id
  updating,       \* history: BeginUpdate was called and CommitUpdate was not since
  unpaired,       \* history: BeginUpdate was called while updating, or CommitUpdate while not
  pool,           \* RPagePool: the pooled pages, oldest first, each with key and use count
  pageRefs,       \* buffer -> number of live scoped references (RPageRef) to its page
  nPages,         \* RPageAllocatorHeap: pages handed out so far
  retired,        \* history: the pages (with key) whose scoped references were all released
  descBuilder,    \* RNTupleDescriptorBuilder: the feature flags set so far
  file,           \* NoFile, or the header and footer committed to the file
  pageSource,     \* RPageSource: NoSource, or its state, its reader's features, its descriptor
  threads,        \* thread -> the call it is in, where it is in it, the ids it has drawn
  issued,         \* history: the ids GetNewModelId returned to the threads, in order
  options,        \* RNTupleWriteOptions: the options of the writer to be
  last            \* the call just made: operation, arguments, outcome, returned object

\* The state of the model, its writer and its updater.
modelVars == <<gLastModelId, models, writer, fNEntries, fNewModelId, fOpenChangeset,
               sink, token, crashed, keptSchemaId, updating, unpaired>>
\* The state of the page pool and of its callers.
poolVars == <<pool, pageRefs, nPages, retired>>

\* The state of the descriptor builder, of the file and of the page source.
compatVars == <<descBuilder, file, pageSource>>

\* The threads that work on models of their own.
threadVars == <<threads, issued>>

vars == <<modelVars, poolVars, compatVars, threadVars, options, last>>

ModelSlots == 1..MaxModels

\* ---------------------------------------------------------------- fields
\* A null pointer into a field tree (child indices start at 1), and the null
\* values of the other kinds of object.
NullPtr == <<0>>
NullField == [null |-> "field"]
NoModel == [null |-> "model"]
NoEntry == [null |-> "entry"]
NoToken == [null |-> "token"]
NoRet == [null |-> "nothing"]

kLeaf == "kLeaf"
kCollection == "kCollection"
kRecord == "kRecord"
kVariant == "kVariant"
kUnsplit == "kUnsplit"

MkField(name, structure, typeName, nRep, isCard, subs) ==
  [fName |-> name, fStructure |-> structure, fTypeName |-> typeName,
   fNRepetitions |-> nRep, fIsCardinality |-> isCard, fSubFields |-> subs]

\* RFieldZero: the nameless record at the root of a field tree.
RFieldZero == MkField("", kRecord, "", 0, FALSE, <<>>)

\* The field a pointer (index path) of the tree rooted at f points to.
RECURSIVE NodeAt(_, _)
NodeAt(f, p) ==
  IF p = <<>> THEN f ELSE NodeAt(f.fSubFields[Head(p)], Tail(p))

\* RFieldBase::GetParent: the zero field and a detached field have none.
GetParent(p) == IF p = <<>> THEN NullPtr ELSE SubSeq(p, 1, Len(p) - 1)

\* The descendants of f (f itself excluded) in the order RSchemaIterator
\* visits them: depth first, children in order.
RECURSIVE DescendantsFrom(_, _)
RECURSIVE ConcatSubTrees(_, _, _)
ConcatSubTrees(f, p, i) ==
  IF i > Len(f.fSubFields) THEN <<>>
  ELSE <<Append(p, i)>> \o DescendantsFrom(f.fSubFields[i], Append(p, i))
       \o ConcatSubTrees(f, p, i + 1)
DescendantsFrom(f, p) == ConcatSubTrees(f, p, 1)
Descendants(f) == DescendantsFrom(f, <<>>)

\* RFieldBase::GetQualifiedFieldName of the field at p in the tree rooted at
\* root: the names on the way from the root, the root's own name included
\* unless it is empty (the zero field).
RECURSIVE NamesAlong(_, _)
NamesAlong(f, p) ==
  IF p = <<>> THEN <<>>
  ELSE <<f.fSubFields[Head(p)].fName>> \o NamesAlong(f.fSubFields[Head(p)], Tail(p))
GetQualifiedFieldName(root, p) ==
  (IF root.fName = "" THEN <<>> ELSE <<root.fName>>) \o NamesAlong(root, p)

\* RFieldBase::Attach
Attach(parent, child) ==
  [parent EXCEPT !.fSubFields = Append(@, child)]

\* ------------------------------------------------------- RProjectedFields
\* Outcomes of a call that returns RResult<void> or throws.
Ok == "ok"
Crash == "crash (null dereference)"
ErrStructural == "field mapping structural mismatch"
ErrType == "field mapping type mismatch"
ErrArray == "unsupported field mapping across fixed-size arrays"
ErrSourceStructure == "unsupported field mapping (source structure)"
ErrTargetStructure == "unsupported field mapping (target structure)"
ErrStructure == "field mapping structure mismatch"

\* fnHasArrayParent: some proper ancestor of p has a repetition count > 0.
fnHasArrayParent(tree, p) ==
  \E n \in 0..(Len(p) - 1) : NodeAt(tree, SubSeq(p, 1, n)).fNRepetitions > 0

\* fnBreakPoint: the nearest proper ancestor of p that is neither a record
\* nor a leaf, nullptr when the walk reaches the top of the tree.
RECURSIVE fnBreakPoint(_, _)
fnBreakPoint(tree, p) ==
  LET parent == GetParent(p) IN
  IF parent = NullPtr THEN NullPtr
  ELSE IF NodeAt(tree, parent).fStructure \notin {kRecord, kLeaf} THEN parent
  ELSE fnBreakPoint(tree, parent)

\* The checks on the break points without the look-up of line 104: any two
\* collections go together.
CheckBreakPointsAnyCollections(field, zero, source, target, fieldMap) ==
  LET sourceBreakPoint == fnBreakPoint(zero, source)
      targetBreakPoint == fnBreakPoint(field, target)
  IN
  IF sourceBreakPoint # NullPtr
       /\ NodeAt(zero, sourceBreakPoint).fStructure # kCollection
  THEN {ErrSourceStructure}
  ELSE IF targetBreakPoint # NullPtr /\ sourceBreakPoint = NullPtr
  THEN {Crash, ErrTargetStructure, ErrStructure}
  ELSE IF sourceBreakPoint = NullPtr /\ targetBreakPoint = NullPtr
  THEN {Ok}
  ELSE IF sourceBreakPoint # NullPtr /\ targetBreakPoint # NullPtr
  THEN {Ok}
  ELSE {ErrStructure}

\* The checks of EnsureValidMapping on the break points (lines 87-113).
\* With a target break point and no source break point, line 92 reads the
\* structure of a null pointer: the process dies, or the read yields some
\* value, which either differs from kCollection (line 93) or does not, and
\* then control reaches line 113.
CheckBreakPoints(field, zero, source, target, fieldMap) ==
  LET sourceBreakPoint == fnBreakPoint(zero, source)
      targetBreakPoint == fnBreakPoint(field, target)
  IN
  IF sourceBreakPoint # NullPtr
       /\ NodeAt(zero, sourceBreakPoint).fStructure # kCollection
  THEN {ErrSourceStructure}
  ELSE IF targetBreakPoint # NullPtr /\ sourceBreakPoint = NullPtr
  THEN {Crash, ErrTargetStructure, ErrStructure}
  ELSE IF sourceBreakPoint = NullPtr /\ targetBreakPoint = NullPtr
  THEN {Ok}
  ELSE IF sourceBreakPoint # NullPtr /\ targetBreakPoint # NullPtr
  THEN \* sourceBreakPoint points into the model's tree and targetBreakPoint
       \* into the field being added: the two are never the same object.
       IF targetBreakPoint \in DOMAIN fieldMap
            /\ fieldMap[targetBreakPoint] = sourceBreakPoint
       THEN {Ok}
       ELSE {ErrStructure}
  ELSE {ErrStructure}

\* EnsureValidMapping without the RCardinalityField case of line 49.
EnsureValidMappingSameKind(field, zero, target, fieldMap) ==
  LET source == fieldMap[target]
      s == NodeAt(zero, source)
      t == NodeAt(field, target)
  IN
  IF s.fStructure # t.fStructure THEN {ErrStructural}
  ELSE IF s.fStructure \in {kLeaf, kUnsplit} /\ t.fTypeName # s.fTypeName
  THEN {ErrType}
  ELSE IF fnHasArrayParent(zero, source) \/ fnHasArrayParent(field, target)
  THEN {ErrArray}
  ELSE CheckBreakPoints(field, zero, source, target, fieldMap)
\* EnsureValidMapping with fnHasArrayParent applied to the target only
\* (line 66).
EnsureValidMappingTargetArrayOnly(field, zero, target, fieldMap) ==
  LET source == fieldMap[target]
      s == NodeAt(zero, source)
      t == NodeAt(field, target)
      hasCompatibleStructure ==
        \/ s.fStructure = t.fStructure
        \/ (s.fStructure = kCollection /\ t.fIsCardinality)
  IN
  IF ~hasCompatibleStructure THEN {ErrStructural}
  ELSE IF s.fStructure \in {kLeaf, kUnsplit} /\ t.fTypeName # s.fTypeName
  THEN {ErrType}
  ELSE IF fnHasArrayParent(field, target)
  THEN {ErrArray}
  ELSE CheckBreakPoints(field, zero, source, target, fieldMap)
\* RProjectedFields::EnsureValidMapping(target, fieldMap): the set of
\* outcomes the call can have.  target is a pointer into field (the detached
\* field being added), and fieldMap sends each such pointer to a pointer
\* into zero, the model's field tree.
EnsureValidMapping(field, zero, target, fieldMap) ==
  LET source == fieldMap[target]
      s == NodeAt(zero, source)
      t == NodeAt(field, target)
      hasCompatibleStructure ==
        \/ s.fStructure = t.fStructure
        \/ (s.fStructure = kCollection /\ t.fIsCardinality)
  IN
  IF ~hasCompatibleStructure THEN {ErrStructural}
  ELSE IF s.fStructure \in {kLeaf, kUnsplit} /\ t.fTypeName # s.fTypeName
  THEN {ErrType}
  ELSE IF fnHasArrayParent(zero, source) \/ fnHasArrayParent(field, target)
  THEN {ErrArray}
  ELSE CheckBreakPoints(field, zero, source, target, fieldMap)

\* The outcomes of validating the targets in order: those of the first
\* target that is not accepted.
RECURSIVE ValidateAll(_, _, _, _)
ValidateAll(field, zero, targets, fieldMap) ==
  IF targets = <<>> THEN {Ok}
  ELSE LET r == EnsureValidMapping(field, zero, Head(targets), fieldMap) IN
       IF r = {Ok} THEN ValidateAll(field, zero, Tail(targets), fieldMap)
       ELSE r

\* RProjectedFields: the projected fields' own zero field and fFieldMap, a
\* function from pointers into that tree to pointers into the model's tree.
EmptyFieldMap == [p \in {} |-> <<>>]
NewProjectedFields == [fFieldZero |-> RFieldZero, fFieldMap |-> EmptyFieldMap]

\* RProjectedFields::Add: the possible outcomes of the validation.
AddOutcomes(field, zero, fieldMap) ==
  ValidateAll(field, zero, <<<<>>>> \o Descendants(field), fieldMap)

\* RProjectedFields::Add once the validation succeeded: the mappings are
\* inserted and the field is attached.  Attached as child k of the projected
\* zero field, the pointer p into the field becomes <<k>> \o p.
AddInsert(pf, field, fieldMap) ==
  LET k == Len(pf.fFieldZero.fSubFields) + 1
      added == {<<k>> \o p : p \in DOMAIN fieldMap}
  IN [fFieldZero |-> Attach(pf.fFieldZero, field),
      fFieldMap |-> [q \in DOMAIN pf.fFieldMap \cup added |->
                       IF q \in DOMAIN pf.fFieldMap THEN pf.fFieldMap[q]
                       ELSE fieldMap[Tail(q)]]]

\* ----------------------------------------------------------- RNTupleModel
ErrFrozen == "invalid attempt to modify frozen model"
ErrNotFrozen == "model not frozen"
ErrBare == "invalid attempt to use default entry of bare model"
ErrNullField == "null field"
ErrInvalidName == "invalid field name"
ErrDuplicate == "field name already exists in NTuple model"
ErrNoSuchField == "no such field"
ErrInvalidToken == "invalid field name (token)"
ErrMismatch == "mismatch between entry and model"

\* GetNewModelId that returns the counter as it was before the increment
\* (gLastModelId++ for ++gLastModelId).
GetNewModelIdBefore(n) == gLastModelId + n - 1
\* GetNewModelId: the n-th id handed out after the current one.
GetNewModelId(n) == gLastModelId + n

\* REntry(modelId, schemaId), without values.
REntry(modelId, schemaId) ==
  [fModelId |-> modelId, fSchemaId |-> schemaId, fValues |-> <<>>]

\* REntry::AddValue; a value is represented by the name of its field.
AddValue(entry, field) == [entry EXCEPT !.fValues = Append(@, field.fName)]

\* RNTupleModel::RNTupleModel(fieldZero), then CreateBare's fProjectedFields.
CreateBareModel(fieldZero, id) ==
  [fFieldZero |-> fieldZero, fFieldNames |-> {}, fDescription |-> "",
   fIsFrozen |-> FALSE, fModelId |-> id, fSchemaId |-> id,
   fDefaultEntry |-> NoEntry, fProjectedFields |-> NewProjectedFields]

\* RNTupleModel::Create(fieldZero)
CreateModel(fieldZero, id) ==
  [CreateBareModel(fieldZero, id) EXCEPT !.fDefaultEntry = REntry(id, id)]

\* RFieldBase::EnsureValidFieldName: a name is invalid when it is empty or
\* holds a dot.
DottedNames == {"x.y"}
ValidFieldName(name) == name # "" /\ name \notin DottedNames

\* EnsureValidFieldName without the look-up in fFieldNames (lines 210-211).
EnsureValidFieldNameNoDuplicates(model, fieldName) ==
  IF ~ValidFieldName(fieldName) THEN ErrInvalidName ELSE Ok
\* RNTupleModel::EnsureValidFieldName
EnsureValidFieldName(model, fieldName) ==
  IF ~ValidFieldName(fieldName) THEN ErrInvalidName
  ELSE IF fieldName \in model.fFieldNames THEN ErrDuplicate
  ELSE Ok

\* RNTupleModel::FindField: the first child with the segment's name, level
\* by level; nullptr for the empty name and for a missing segment.
RECURSIVE FindFrom(_, _, _)
FindFrom(zero, p, segments) ==
  IF segments = <<>> THEN p
  ELSE LET subs == NodeAt(zero, p).fSubFields
           hits == {i \in 1..Len(subs) : subs[i].fName = Head(segments)}
       IN IF hits = {} THEN NullPtr
          ELSE FindFrom(zero, Append(p, CHOOSE i \in hits : \A j \in hits : i <= j),
                        Tail(segments))
FindField(model, fieldName) ==
  IF fieldName = <<>> THEN NullPtr ELSE FindFrom(model.fFieldZero, <<>>, fieldName)

\* AddField with the null check (lines 305-306) ahead of EnsureNotFrozen.
AddFieldOutcomeNullFirst(model, field) ==
  IF field = NullField THEN ErrNullField
  ELSE IF model.fIsFrozen THEN ErrFrozen
  ELSE EnsureValidFieldName(model, field.fName)
\* The outcome of RNTupleModel::AddField(field).
AddFieldOutcome(model, field) ==
  IF model.fIsFrozen THEN ErrFrozen
  ELSE IF field = NullField THEN ErrNullField
  ELSE EnsureValidFieldName(model, field.fName)

\* AddField that also gives the model another schema id.
AddFieldApplyNewSchemaId(model, field) ==
  [model EXCEPT
     !.fDefaultEntry = IF @ = NoEntry THEN @ ELSE AddValue(@, field),
     !.fFieldNames = @ \cup {field.fName},
     !.fFieldZero = Attach(@, field),
     !.fSchemaId = @ + 1]
\* RNTupleModel::AddField(field) when nothing is thrown.
AddFieldApply(model, field) ==
  [model EXCEPT
     !.fDefaultEntry = IF @ = NoEntry THEN @ ELSE AddValue(@, field),
     !.fFieldNames = @ \cup {field.fName},
     !.fFieldZero = Attach(@, field)]

\* A FieldMappingFunc_t: the qualified names listed in table go where the
\* table says, every other name has its first segment replaced by prefix
\* (the empty name becomes prefix).
ApplyMapping(mapping, qname) ==
  IF qname \in DOMAIN mapping.table THEN mapping.table[qname]
  ELSE IF qname = <<>> THEN mapping.prefix
  ELSE mapping.prefix \o Tail(qname)

\* The source paths AddProjectedField resolves (lines 323-333): the targets
\* that FindField resolves, each with its source.
ResolvedMap(model, field, mapping) ==
  LET targets == {<<>>} \cup {Descendants(field)[i] : i \in 1..Len(Descendants(field))}
      src(p) == FindField(model, ApplyMapping(mapping, GetQualifiedFieldName(field, p)))
  IN [p \in {q \in targets : src(q) # NullPtr} |-> src(p)]

AllResolved(model, field, mapping) ==
  DOMAIN ResolvedMap(model, field, mapping)
    = {<<>>} \cup {Descendants(field)[i] : i \in 1..Len(Descendants(field))}

\* The outcomes RNTupleModel::AddProjectedField(field, mapping) can have.
AddProjectedFieldOutcomes(model, field, mapping) ==
  IF model.fIsFrozen THEN {ErrFrozen}
  ELSE IF field = NullField THEN {ErrNullField}
  ELSE IF ~AllResolved(model, field, mapping) THEN {ErrNoSuchField}
  ELSE IF EnsureValidFieldName(model, field.fName) # Ok
  THEN {EnsureValidFieldName(model, field.fName)}
  ELSE AddOutcomes(field, model.fFieldZero, ResolvedMap(model, field, mapping))

\* RNTupleModel::AddProjectedField(field, mapping) when it succeeds.
AddProjectedFieldApply(model, field, mapping) ==
  [model EXCEPT
     !.fProjectedFields = AddInsert(@, field, ResolvedMap(model, field, mapping)),
     !.fFieldNames = @ \cup {field.fName}]

\* AddProjectedField with the name recorded (line 340) ahead of
\* RProjectedFields::Add (line 336), so that a refused mapping leaves the name.
AddProjectedFieldPartial(model, field, mapping, res) ==
  IF res = Ok THEN AddProjectedFieldApply(model, field, mapping)
  ELSE IF res \in {ErrStructural, ErrType, ErrArray, ErrSourceStructure,
                   ErrTargetStructure, ErrStructure}
  THEN [model EXCEPT !.fFieldNames = @ \cup {field.fName}]
  ELSE model
\* The model after AddProjectedField(field, mapping) ended with outcome res.
AddProjectedFieldResult(model, field, mapping, res) ==
  IF res = Ok THEN AddProjectedFieldApply(model, field, mapping) ELSE model

\* RNTupleModel::Freeze
FreezeModel(model) == [model EXCEPT !.fIsFrozen = TRUE]

\* Unfreeze without the assignment to fSchemaId (line 427).
UnfreezeModelKeepsSchemaId(model, id) ==
  IF ~model.fIsFrozen THEN model
  ELSE [model EXCEPT
          !.fModelId = id,
          !.fDefaultEntry = IF @ = NoEntry THEN @ ELSE [@ EXCEPT !.fModelId = id],
          !.fIsFrozen = FALSE]
\* RNTupleModel::Unfreeze; id is the id GetNewModelId returns if called.
UnfreezeModel(model, id) ==
  IF ~model.fIsFrozen THEN model
  ELSE [model EXCEPT
          !.fModelId = id,
          !.fSchemaId = id,
          !.fDefaultEntry = IF @ = NoEntry THEN @
                            ELSE [@ EXCEPT !.fModelId = id, !.fSchemaId = id],
          !.fIsFrozen = FALSE]

\* RNTupleModel::SetDescription
SetDescriptionOutcome(model) == IF model.fIsFrozen THEN ErrFrozen ELSE Ok
SetDescriptionApply(model, description) == [model EXCEPT !.fDescription = description]

\* RProjectedFields::Clone: each mapping is re-wired by qualified name, the
\* target to the first field of the cloned projected tree with the target's
\* qualified name, the source to what GetField finds in the cloned model.
FirstWithName(zero, qname) ==
  LET d == Descendants(zero)
      hits == {i \in 1..Len(d) : GetQualifiedFieldName(zero, d[i]) = qname}
  IN d[CHOOSE i \in hits : \A j \in hits : i <= j]
CloneProjectedFields(pf, zero) ==
  LET rewired(k) == FirstWithName(pf.fFieldZero, GetQualifiedFieldName(pf.fFieldZero, k))
      targets == {rewired(k) : k \in DOMAIN pf.fFieldMap}
  IN [fFieldZero |-> pf.fFieldZero,
      fFieldMap |-> [q \in targets |->
         LET k == CHOOSE k \in DOMAIN pf.fFieldMap : rewired(k) = q
         IN FindFrom(zero, <<>>, GetQualifiedFieldName(zero, pf.fFieldMap[k]))]]

\* The values Clone adds to the clone's default entry, one per top-level field.
RECURSIVE AddValues(_, _)
AddValues(entry, subFields) ==
  IF subFields = <<>> THEN entry
  ELSE AddValues(AddValue(entry, Head(subFields)), Tail(subFields))

\* Clone that copies fSchemaId whether or not the model is frozen.
CloneModelKeepsSchemaId(model, ctorId, id) ==
  [fFieldZero |-> model.fFieldZero,
   fFieldNames |-> model.fFieldNames,
   fDescription |-> model.fDescription,
   fIsFrozen |-> model.fIsFrozen,
   fModelId |-> id,
   fSchemaId |-> model.fSchemaId,
   fDefaultEntry |-> IF model.fDefaultEntry = NoEntry THEN NoEntry
                     ELSE AddValues(REntry(id, model.fSchemaId), model.fFieldZero.fSubFields),
   fProjectedFields |-> CloneProjectedFields(model.fProjectedFields, model.fFieldZero)]
\* Clone without the copy of fFieldNames (line 269).
CloneModelForgetsNames(model, ctorId, id) ==
  LET schemaId == IF model.fIsFrozen THEN model.fSchemaId ELSE id IN
  [fFieldZero |-> model.fFieldZero,
   fFieldNames |-> {},
   fDescription |-> model.fDescription,
   fIsFrozen |-> model.fIsFrozen,
   fModelId |-> id,
   fSchemaId |-> schemaId,
   fDefaultEntry |-> IF model.fDefaultEntry = NoEntry THEN NoEntry
                     ELSE AddValues(REntry(id, schemaId), model.fFieldZero.fSubFields),
   fProjectedFields |-> CloneProjectedFields(model.fProjectedFields, model.fFieldZero)]
\* RNTupleModel::Clone; the constructor draws one id (line 227) and Clone
\* draws the clone's id after it (line 260).
CloneModel(model, ctorId, id) ==
  LET schemaId == IF model.fIsFrozen THEN model.fSchemaId ELSE id IN
  [fFieldZero |-> model.fFieldZero,
   fFieldNames |-> model.fFieldNames,
   fDescription |-> model.fDescription,
   fIsFrozen |-> model.fIsFrozen,
   fModelId |-> id,
   fSchemaId |-> schemaId,
   fDefaultEntry |-> IF model.fDefaultEntry = NoEntry THEN NoEntry
                     ELSE AddValues(REntry(id, schemaId), model.fFieldZero.fSubFields),
   fProjectedFields |-> CloneProjectedFields(model.fProjectedFields, model.fFieldZero)]

\* RNTupleModel::CreateEntry and CreateBareEntry on a frozen model: the
\* entry is stamped with the model's ids and holds one value per top-level
\* field (owned values for CreateEntry, unbound ones for CreateBareEntry).
CreateEntryOf(model) ==
  AddValues(REntry(model.fModelId, model.fSchemaId), model.fFieldZero.fSubFields)

\* RNTupleModel::GetToken: the position of the top-level field called
\* fieldName, with the schema id.
TopLevelHits(model, fieldName) ==
  {i \in 1..Len(model.fFieldZero.fSubFields) :
     model.fFieldZero.fSubFields[i].fName = fieldName}
GetTokenOutcome(model, fieldName) ==
  IF TopLevelHits(model, fieldName) = {} THEN ErrInvalidToken ELSE Ok
GetTokenOf(model, fieldName) ==
  [fIndex |-> (CHOOSE i \in TopLevelHits(model, fieldName) :
                 \A j \in TopLevelHits(model, fieldName) : i <= j) - 1,
   fSchemaId |-> model.fSchemaId]

\* The accessors that require a frozen model.
GetFieldZeroOutcome(model) == IF ~model.fIsFrozen THEN ErrNotFrozen ELSE Ok
\* CreateEntry without the frozen check (lines 376-377).
CreateEntryOutcomeUnchecked(model) == Ok
CreateEntryOutcome(model) == IF ~model.fIsFrozen THEN ErrNotFrozen ELSE Ok
CreateBulkOutcome(model, fieldName) ==
  IF ~model.fIsFrozen THEN ErrNotFrozen
  ELSE IF FindField(model, fieldName) = NullPtr THEN ErrNoSuchField
  ELSE Ok
\* RNTupleModel::GetDefaultEntry(), the mutable accessor (lines 360-364).
GetDefaultEntryOutcome(model) ==
  IF model.fDefaultEntry = NoEntry THEN ErrBare ELSE Ok
\* RNTupleModel::GetDefaultEntry() const (lines 366-372).
GetDefaultEntryConstOutcome(model) ==
  IF ~model.fIsFrozen THEN ErrNotFrozen
  ELSE IF model.fDefaultEntry = NoEntry THEN ErrBare
  ELSE Ok

\* --------------------------------------------------------------- actions
Live(m) == models[m] # NoModel
FreeSlots == {m \in ModelSlots : ~Live(m)}
FreeSlot == CHOOSE m \in FreeSlots : \A n \in FreeSlots : m <= n
NFields(model) ==
  Len(model.fFieldZero.fSubFields) + Len(model.fProjectedFields.fFieldZero.fSubFields)
EmptyChangeset == [fAddedFields |-> <<>>, fAddedProjectedFields |-> <<>>]
NoArg == [null |-> "argument"]
Call(op, m, arg, res, ret) ==
  /\ last' = [op |-> op, m |-> m, arg |-> arg, res |-> res, ret |-> ret]
  /\ UNCHANGED <<poolVars, compatVars, threadVars, options>>

Init ==
  /\ gLastModelId = 0
  /\ models = [m \in ModelSlots |-> NoModel]
  /\ writer = 0
  /\ fNEntries = 0
  /\ fNewModelId = 0
  /\ fOpenChangeset = EmptyChangeset
  /\ sink = <<>>
  /\ token = NoToken
  /\ crashed = FALSE
  /\ keptSchemaId = {}
  /\ updating = FALSE
  /\ unpaired = FALSE
  /\ pool = <<>>
  /\ pageRefs = [b \in 1..MaxPages |-> 0]
  /\ nPages = 0
  /\ retired = {}
  /\ descBuilder = {}
  /\ file = [null |-> "file"]
  /\ pageSource = [null |-> "page source"]
  /\ threads = [t \in ModelSlots |-> [op |-> "none", pc |-> "idle", ids |-> <<>>]]
  /\ issued = <<>>
  /\ options = [fPageBufferBudget |-> 0, fMaxUnzippedPageSize |-> 1,
                fInitialNElementsPerPage |-> 1, fApproxZippedClusterSize |-> 0,
                fUseBufferedWrite |-> TRUE, fCompression |-> 0,
                fUseImplicitMT |-> "kDefault"]
  /\ last = [op |-> "start", m |-> 0, arg |-> NoArg, res |-> Ok, ret |-> NoRet]

\* models[1] = RNTupleModel::Create();
Create ==
  /\ ~crashed /\ ~Live(1) /\ gLastModelId < MaxModelId
  /\ gLastModelId' = GetNewModelId(1)
  /\ models' = [models EXCEPT ![1] = CreateModel(RFieldZero, GetNewModelId(1))]
  /\ Call("Create", 1, NoArg, Ok, NoRet)
  /\ UNCHANGED <<writer, fNEntries, fNewModelId, fOpenChangeset, sink, token,
                 crashed, keptSchemaId>>
  /\ UNCHANGED <<updating, unpaired>>

\* models[1] = RNTupleModel::CreateBare();
CreateBare ==
  /\ ~crashed /\ ~Live(1) /\ gLastModelId < MaxModelId
  /\ gLastModelId' = GetNewModelId(1)
  /\ models' = [models EXCEPT ![1] = CreateBareModel(RFieldZero, GetNewModelId(1))]
  /\ Call("CreateBare", 1, NoArg, Ok, NoRet)
  /\ UNCHANGED <<writer, fNEntries, fNewModelId, fOpenChangeset, sink, token,
                 crashed, keptSchemaId>>
  /\ UNCHANGED <<updating, unpaired>>

\* models[FreeSlot] = models[src]->Clone();
Clone(src) ==
  /\ ~crashed /\ Live(src) /\ FreeSlots # {} /\ gLastModelId + 2 <= MaxModelId
  /\ gLastModelId' = GetNewModelId(2)
  /\ models' = [models EXCEPT
                  ![FreeSlot] = CloneModel(models[src], GetNewModelId(1), GetNewModelId(2))]
  /\ keptSchemaId' = IF models[src].fIsFrozen THEN keptSchemaId \cup {FreeSlot}
                     ELSE keptSchemaId
  /\ Call("Clone", FreeSlot, src, Ok, NoRet)
  /\ UNCHANGED <<writer, fNEntries, fNewModelId, fOpenChangeset, sink, token, crashed>>
  /\ UNCHANGED <<updating, unpaired>>

\* models[m]->AddField(field), by the owner of the model.
AddField(m, field) ==
  LET res == AddFieldOutcome(models[m], field) IN
  /\ ~crashed /\ Live(m) /\ m # writer
  /\ res = Ok => NFields(models[m]) < MaxFields
  /\ models' = IF res = Ok THEN [models EXCEPT ![m] = AddFieldApply(@, field)]
                ELSE models
  /\ Call("AddField", m, field, res, NoRet)
  /\ UNCHANGED <<gLastModelId, writer, fNEntries, fNewModelId, fOpenChangeset, sink,
                 token, crashed, keptSchemaId>>
  /\ UNCHANGED <<updating, unpaired>>

\* models[m]->AddProjectedField(field, mapping), by the owner of the model.
AddProjectedField(m, field, mapping) ==
  /\ ~crashed /\ Live(m) /\ m # writer
  /\ \E res \in AddProjectedFieldOutcomes(models[m], field, mapping) :
       /\ res = Ok => NFields(models[m]) < MaxFields
       /\ models' = [models EXCEPT ![m] = AddProjectedFieldResult(@, field, mapping, res)]
       /\ crashed' = (res = Crash)
       /\ Call("AddProjectedField", m, [field |-> field, mapping |-> mapping], res, NoRet)
  /\ UNCHANGED <<gLastModelId, writer, fNEntries, fNewModelId, fOpenChangeset, sink,
                 token, keptSchemaId>>
  /\ UNCHANGED <<updating, unpaired>>

\* models[m]->Freeze()
Freeze(m) ==
  /\ ~crashed /\ Live(m) /\ m # writer
  /\ models' = [models EXCEPT ![m] = FreezeModel(@)]
  /\ Call("Freeze", m, NoArg, Ok, NoRet)
  /\ UNCHANGED <<gLastModelId, writer, fNEntries, fNewModelId, fOpenChangeset, sink,
                 token, crashed, keptSchemaId>>
  /\ UNCHANGED <<updating, unpaired>>

\* models[m]->Unfreeze()
Unfreeze(m) ==
  /\ ~crashed /\ Live(m) /\ m # writer
  /\ models[m].fIsFrozen => gLastModelId < MaxModelId
  /\ models' = [models EXCEPT ![m] = UnfreezeModel(@, GetNewModelId(1))]
  /\ gLastModelId' = IF models[m].fIsFrozen THEN GetNewModelId(1) ELSE gLastModelId
  /\ keptSchemaId' = IF models[m].fIsFrozen THEN keptSchemaId \ {m} ELSE keptSchemaId
  /\ Call("Unfreeze", m, NoArg, Ok, NoRet)
  /\ UNCHANGED <<writer, fNEntries, fNewModelId, fOpenChangeset, sink, token, crashed>>
  /\ UNCHANGED <<updating, unpaired>>

\* models[m]->SetDescription(description)
SetDescription(m, description) ==
  LET res == SetDescriptionOutcome(models[m]) IN
  /\ ~crashed /\ Live(m) /\ m # writer
  /\ models' = IF res = Ok THEN [models EXCEPT ![m] = SetDescriptionApply(@, description)]
                ELSE models
  /\ Call("SetDescription", m, description, res, NoRet)
  /\ UNCHANGED <<gLastModelId, writer, fNEntries, fNewModelId, fOpenChangeset, sink,
                 token, crashed, keptSchemaId>>
  /\ UNCHANGED <<updating, unpaired>>

Unchanged9 ==
  UNCHANGED <<gLastModelId, models, writer, fNEntries, fNewModelId, fOpenChangeset,
              sink, crashed, keptSchemaId, updating, unpaired>>

\* models[m]->GetFieldZero(), the mutable accessor
GetFieldZero(m) ==
  LET res == GetFieldZeroOutcome(models[m]) IN
  /\ ~crashed /\ Live(m)
  /\ Call("GetFieldZero", m, NoArg, res,
          IF res = Ok THEN [ref |-> "fFieldZero"] ELSE NoRet)
  /\ Unchanged9 /\ UNCHANGED token

\* models[m]->GetDefaultEntry(), the mutable accessor
GetDefaultEntry(m) ==
  LET res == GetDefaultEntryOutcome(models[m]) IN
  /\ ~crashed /\ Live(m)
  /\ Call("GetDefaultEntry", m, NoArg, res,
          IF res = Ok THEN [ref |-> "fDefaultEntry"] ELSE NoRet)
  /\ Unchanged9 /\ UNCHANGED token

\* models[m]->GetDefaultEntry() through a const reference
GetDefaultEntryConst(m) ==
  LET res == GetDefaultEntryConstOutcome(models[m]) IN
  /\ ~crashed /\ Live(m)
  /\ Call("GetDefaultEntryConst", m, NoArg, res,
          IF res = Ok THEN [ref |-> "fDefaultEntry"] ELSE NoRet)
  /\ Unchanged9 /\ UNCHANGED token

\* models[m]->CreateEntry()
CreateEntry(m) ==
  LET res == CreateEntryOutcome(models[m]) IN
  /\ ~crashed /\ Live(m)
  /\ Call("CreateEntry", m, NoArg, res,
          IF res = Ok THEN CreateEntryOf(models[m]) ELSE NoRet)
  /\ Unchanged9 /\ UNCHANGED token

\* models[m]->CreateBareEntry()
CreateBareEntry(m) ==
  LET res == CreateEntryOutcome(models[m]) IN
  /\ ~crashed /\ Live(m)
  /\ Call("CreateBareEntry", m, NoArg, res,
          IF res = Ok THEN CreateEntryOf(models[m]) ELSE NoRet)
  /\ Unchanged9 /\ UNCHANGED token

\* token = models[m]->GetToken(fieldName)
GetToken(m, fieldName) ==
  LET res == GetTokenOutcome(models[m], fieldName) IN
  /\ ~crashed /\ Live(m)
  /\ token' = IF res = Ok THEN [m |-> m] @@ GetTokenOf(models[m], fieldName) ELSE token
  /\ Call("GetToken", m, fieldName, res,
          IF res = Ok THEN GetTokenOf(models[m], fieldName) ELSE NoRet)
  /\ Unchanged9

\* models[m]->CreateBulk(fieldName)
CreateBulk(m, fieldName) ==
  LET res == CreateBulkOutcome(models[m], fieldName) IN
  /\ ~crashed /\ Live(m)
  /\ Call("CreateBulk", m, fieldName, res,
          IF res = Ok THEN [bulk |-> fieldName] ELSE NoRet)
  /\ Unchanged9 /\ UNCHANGED token

\* ------------------------------------------------- RNTupleWriter, RUpdater
\* RNTupleWriter's constructor takes the model over and freezes it; the
\* writer's RUpdater starts with fNewModelId = 0 and an empty changeset.
MakeWriter(m) ==
  /\ ~crashed /\ Live(m) /\ writer = 0
  /\ writer' = m
  /\ models' = [models EXCEPT ![m] = FreezeModel(@)]
  /\ Call("MakeWriter", m, NoArg, Ok, NoRet)
  /\ UNCHANGED <<gLastModelId, fNEntries, fNewModelId, fOpenChangeset, sink, token,
                 crashed, keptSchemaId>>
  /\ UNCHANGED <<updating, unpaired>>

\* Row-append requires a nonzero model id of the entry equal to the model's.
FillOutcome(model, entry) ==
  IF entry.fModelId # 0 /\ entry.fModelId = model.fModelId THEN Ok ELSE ErrMismatch

\* The entries a caller can hand to Fill: the default entry of the writer's
\* model and the entry CreateEntry or CreateBareEntry just returned.
FillCandidates ==
  IF writer = 0 THEN {}
  ELSE ({models[writer].fDefaultEntry} \ {NoEntry})
         \cup (IF last.op \in {"CreateEntry", "CreateBareEntry"} /\ last.res = Ok
               THEN {last.ret} ELSE {})

\* writer->Fill(entry)
Fill(entry) ==
  LET res == FillOutcome(models[writer], entry) IN
  /\ ~crashed /\ writer # 0
  /\ res = Ok => fNEntries < MaxEntries
  /\ fNEntries' = IF res = Ok THEN fNEntries + 1 ELSE fNEntries
  /\ Call("Fill", writer, entry, res, NoRet)
  /\ UNCHANGED <<gLastModelId, models, writer, fNewModelId, fOpenChangeset, sink,
                 token, crashed, keptSchemaId>>
  /\ UNCHANGED <<updating, unpaired>>

\* RUpdater::BeginUpdate: Unfreeze, then std::swap(fModelId, fNewModelId).
BeginUpdate ==
  LET unfrozen == UnfreezeModel(models[writer], GetNewModelId(1)) IN
  /\ ~crashed /\ writer # 0
  /\ models[writer].fIsFrozen => gLastModelId < MaxModelId
  /\ gLastModelId' = IF models[writer].fIsFrozen THEN GetNewModelId(1) ELSE gLastModelId
  /\ models' = [models EXCEPT ![writer] = [unfrozen EXCEPT !.fModelId = fNewModelId]]
  /\ fNewModelId' = unfrozen.fModelId
  /\ keptSchemaId' = IF models[writer].fIsFrozen THEN keptSchemaId \ {writer}
                     ELSE keptSchemaId
  /\ Call("BeginUpdate", writer, NoArg, Ok, NoRet)
  /\ UNCHANGED <<writer, fNEntries, fOpenChangeset, sink, token, crashed>>
  /\ updating' = TRUE
  /\ unpaired' = (unpaired \/ updating)

\* CommitUpdate that hands the open changeset to the sink without taking
\* its fields out of it (lines 180-181).
CommitUpdateKeepsChangeset ==
  LET frozen == FreezeModel(models[writer]) IN
  /\ ~crashed /\ writer # 0
  /\ models' = [models EXCEPT ![writer] = [frozen EXCEPT !.fModelId = fNewModelId]]
  /\ fNewModelId' = frozen.fModelId
  /\ IF fOpenChangeset = EmptyChangeset
     THEN UNCHANGED <<fOpenChangeset, sink>>
     ELSE /\ sink' = Append(sink, [fAddedFields |-> fOpenChangeset.fAddedFields,
                                   fAddedProjectedFields |->
                                     fOpenChangeset.fAddedProjectedFields,
                                   nEntries |-> fNEntries])
          /\ UNCHANGED fOpenChangeset
  /\ Call("CommitUpdate", writer, NoArg, Ok, NoRet)
  /\ UNCHANGED <<gLastModelId, writer, fNEntries, token, crashed, keptSchemaId>>
  /\ updating' = FALSE
  /\ unpaired' = (unpaired \/ ~updating)
\* RUpdater::CommitUpdate: Freeze, std::swap(fModelId, fNewModelId), and the
\* changeset, unless empty, goes to the sink with the writer's entry count.
CommitUpdate ==
  LET frozen == FreezeModel(models[writer]) IN
  /\ ~crashed /\ writer # 0
  /\ models' = [models EXCEPT ![writer] = [frozen EXCEPT !.fModelId = fNewModelId]]
  /\ fNewModelId' = frozen.fModelId
  /\ IF fOpenChangeset = EmptyChangeset
     THEN UNCHANGED <<fOpenChangeset, sink>>
     ELSE /\ sink' = Append(sink, [fAddedFields |-> fOpenChangeset.fAddedFields,
                                   fAddedProjectedFields |->
                                     fOpenChangeset.fAddedProjectedFields,
                                   nEntries |-> fNEntries])
          /\ fOpenChangeset' = EmptyChangeset
  /\ Call("CommitUpdate", writer, NoArg, Ok, NoRet)
  /\ UNCHANGED <<gLastModelId, writer, fNEntries, token, crashed, keptSchemaId>>
  /\ updating' = FALSE
  /\ unpaired' = (unpaired \/ ~updating)

\* RUpdater::AddField: the model's AddField, and the field joins the
\* changeset unless AddField threw.
UpdaterAddField(field) ==
  LET res == AddFieldOutcome(models[writer], field) IN
  /\ ~crashed /\ writer # 0
  /\ res = Ok => NFields(models[writer]) < MaxFields
  /\ models' = IF res = Ok THEN [models EXCEPT ![writer] = AddFieldApply(@, field)]
                ELSE models
  /\ fOpenChangeset' = IF res = Ok
                        THEN [fOpenChangeset EXCEPT !.fAddedFields = Append(@, field.fName)]
                        ELSE fOpenChangeset
  /\ Call("UpdaterAddField", writer, field, res, NoRet)
  /\ UNCHANGED <<gLastModelId, writer, fNEntries, fNewModelId, sink, token, crashed,
                 keptSchemaId>>
  /\ UNCHANGED <<updating, unpaired>>

\* RUpdater::AddProjectedField
UpdaterAddProjectedField(field, mapping) ==
  /\ ~crashed /\ writer # 0
  /\ \E res \in AddProjectedFieldOutcomes(models[writer], field, mapping) :
       /\ res = Ok => NFields(models[writer]) < MaxFields
       /\ models' = [models EXCEPT
                       ![writer] = AddProjectedFieldResult(@, field, mapping, res)]
       /\ fOpenChangeset' =
            IF res = Ok
            THEN [fOpenChangeset EXCEPT !.fAddedProjectedFields = Append(@, field.fName)]
            ELSE fOpenChangeset
       /\ crashed' = (res = Crash)
       /\ Call("UpdaterAddProjectedField", writer,
               [field |-> field, mapping |-> mapping], res, NoRet)
  /\ UNCHANGED <<gLastModelId, writer, fNEntries, fNewModelId, sink, token, keptSchemaId>>
  /\ UNCHANGED <<updating, unpaired>>

\* --------------------------------------------------------- RPage, RPagePool
\* RPagePool::RKey{column id, element type}
RKey(columnId, type) == [fColumnId |-> columnId, fType |-> type]
RClusterInfo(id, indexOffset) == [fId |-> id, fIndexOffset |-> indexOffset]
RClusterIndex(clusterId, index) == [fClusterId |-> clusterId, fIndex |-> index]
GlobalIndex(index) == [fGlobalIndex |-> index]

\* allocator.NewPage and page.GrowUnchecked(nElements); buffer 0 is the
\* buffer of the null page.
NewPage(buffer, nElements) ==
  [fBuffer |-> buffer, fNElements |-> nElements, fRangeFirst |-> 0,
   fClusterInfo |-> RClusterInfo(0, 0)]
NullPage == NewPage(0, 0)
IsNull(page) == page.fBuffer = 0
SetWindow(page, rangeFirst, clusterInfo) ==
  [page EXCEPT !.fRangeFirst = rangeFirst, !.fClusterInfo = clusterInfo]
GetGlobalRangeFirst(page) == page.fRangeFirst
GetGlobalRangeLast(page) == page.fRangeFirst + page.fNElements - 1
GetClusterRangeFirst(page) == page.fRangeFirst - page.fClusterInfo.fIndexOffset
GetClusterRangeLast(page) == GetClusterRangeFirst(page) + page.fNElements - 1

\* Contains that takes a cluster index for an index of the page's cluster.
ContainsAnyCluster(page, index) ==
  IF "fClusterId" \in DOMAIN index
  THEN /\ GetClusterRangeFirst(page) <= index.fIndex
       /\ index.fIndex <= GetClusterRangeLast(page)
  ELSE /\ GetGlobalRangeFirst(page) <= index.fGlobalIndex
       /\ index.fGlobalIndex <= GetGlobalRangeLast(page)
\* RPage::Contains, for a global index and for a cluster index.
Contains(page, index) ==
  IF "fClusterId" \in DOMAIN index
  THEN /\ index.fClusterId = page.fClusterInfo.fId
       /\ GetClusterRangeFirst(page) <= index.fIndex
       /\ index.fIndex <= GetClusterRangeLast(page)
  ELSE /\ GetGlobalRangeFirst(page) <= index.fGlobalIndex
       /\ index.fGlobalIndex <= GetGlobalRangeLast(page)

SameWindow(p, q) ==
  /\ p.fRangeFirst = q.fRangeFirst /\ p.fNElements = q.fNElements
  /\ p.fClusterInfo = q.fClusterInfo

Min(a, b) == IF a <= b THEN a ELSE b
Lowest(S) == CHOOSE i \in S : \A j \in S : i <= j
RemoveAt(seq, i) == SubSeq(seq, 1, i - 1) \o SubSeq(seq, i + 1, Len(seq))

\* The entry GetPage(key, index) finds: the oldest entry with the key whose
\* page contains the index; 0 if there is none.
FindPage(entries, key, index) ==
  LET hits == {i \in 1..Len(entries) :
                 entries[i].fKey = key /\ Contains(entries[i].fPage, index)}
  IN IF hits = {} THEN 0 ELSE Lowest(hits)

\* The entry that holds a page with the key and the window of page; 0 if
\* there is none.
FindSame(entries, page, key) ==
  LET hits == {i \in 1..Len(entries) :
                 entries[i].fKey = key /\ SameWindow(entries[i].fPage, page)}
  IN IF hits = {} THEN 0 ELSE Lowest(hits)

\* The entry that holds the page with the buffer; 0 if there is none.
FindBuffer(entries, buffer) ==
  LET hits == {i \in 1..Len(entries) : entries[i].fPage.fBuffer = buffer}
  IN IF hits = {} THEN 0 ELSE Lowest(hits)

\* RegisterPage that does not look for a page with the same key and window.
RegisterPageAlways(entries, page, key, initialRefCounter) ==
  Append(entries, [fKey |-> key, fPage |-> page, fRefCounter |-> initialRefCounter])
\* RegisterPage and PreloadPage: the page joins the pool with the initial
\* use count, unless the pool holds a page with the same key and window:
\* then that entry takes the reference and the new page is dropped.
RegisterPageImpl(entries, page, key, initialRefCounter) ==
  LET i == FindSame(entries, page, key) IN
  IF i = 0
  THEN Append(entries, [fKey |-> key, fPage |-> page, fRefCounter |-> initialRefCounter])
  ELSE [entries EXCEPT ![i].fRefCounter = @ + initialRefCounter]

\* GetPage that hands out the page without counting the reference.
CheckOutUncounted(entries, i) == entries
\* The pool after GetPage found entry i.
CheckOut(entries, i) == [entries EXCEPT ![i].fRefCounter = @ + 1]

\* ReleasePage that drops the entry while references to its page remain.
ReleasePageDrops(entries, i) == RemoveAt(entries, i)
\* ReleasePage that keeps the entry whose use count reached zero.
ReleasePageKeeps(entries, i) == [entries EXCEPT ![i].fRefCounter = @ - 1]
\* RPagePool::ReleasePage, called when a scoped reference to the page of
\* entry i ends: the use count goes down by one, and the entry whose count
\* reaches zero leaves the pool.
ReleasePageImpl(entries, i) ==
  IF entries[i].fRefCounter = 1 THEN RemoveAt(entries, i)
  ELSE [entries EXCEPT ![i].fRefCounter = @ - 1]

\* Evict that takes the oldest entries, used or not.
EvictAny(entries, n) == SubSeq(entries, Min(n, Len(entries)) + 1, Len(entries))
\* RPagePool::Evict(n): up to n entries with use count zero leave the pool,
\* oldest first.
RECURSIVE EvictImpl(_, _)
EvictImpl(entries, n) ==
  LET unused == {i \in 1..Len(entries) : entries[i].fRefCounter = 0} IN
  IF n = 0 \/ unused = {} THEN entries
  ELSE EvictImpl(RemoveAt(entries, Lowest(unused)), n - 1)

\* The pages of the pool tests: PageElements elements from RangeFirst on, or
\* the page that follows, in the cluster that starts at IndexOffset.
PageElements == 10
RangeFirst == 50
ClusterId == 2
IndexOffset == 40
TestPage(buffer, rangeFirst) ==
  SetWindow(NewPage(buffer, PageElements), rangeFirst, RClusterInfo(ClusterId, IndexOffset))
PoolCall(op, arg, ret) ==
  /\ last' = [op |-> op, m |-> 0, arg |-> arg, res |-> Ok, ret |-> ret]
  /\ UNCHANGED <<modelVars, compatVars, threadVars, options>>

\* auto ref = pool.RegisterPage(std::move(page), key);
RegisterPage(key, rangeFirst) ==
  LET page == TestPage(nPages + 1, rangeFirst)
      i == FindSame(pool, page, key)
      kept == IF i = 0 THEN page ELSE pool[i].fPage
  IN /\ nPages < MaxPages
     /\ i # 0 => pool[i].fRefCounter < MaxRefs
     /\ nPages' = nPages + 1
     /\ pool' = RegisterPageImpl(pool, page, key, 1)
     /\ pageRefs' = [pageRefs EXCEPT ![kept.fBuffer] = @ + 1]
     /\ PoolCall("RegisterPage", [key |-> key, page |-> page], kept)
     /\ UNCHANGED retired

\* pool.PreloadPage(std::move(page), key);
PreloadPage(key, rangeFirst) ==
  LET page == TestPage(nPages + 1, rangeFirst) IN
  /\ nPages < MaxPages
  /\ nPages' = nPages + 1
  /\ pool' = RegisterPageImpl(pool, page, key, 0)
  /\ PoolCall("PreloadPage", [key |-> key, page |-> page], NoRet)
  /\ UNCHANGED <<pageRefs, retired>>

\* auto ref = pool.GetPage(key, index);
GetPage(key, index) ==
  LET i == FindPage(pool, key, index) IN
  /\ i # 0 => pool[i].fRefCounter < MaxRefs
  /\ pool' = IF i = 0 THEN pool ELSE CheckOut(pool, i)
  /\ pageRefs' = IF i = 0 THEN pageRefs
                 ELSE [pageRefs EXCEPT ![pool[i].fPage.fBuffer] = @ + 1]
  /\ PoolCall("GetPage", [key |-> key, index |-> index],
              IF i = 0 THEN NullPage ELSE pool[i].fPage)
  /\ UNCHANGED <<nPages, retired>>

\* A scoped reference to the page with the buffer goes out of scope.
ReleasePage(buffer) ==
  LET i == FindBuffer(pool, buffer) IN
  /\ pageRefs[buffer] > 0
  /\ pool' = IF i = 0 THEN pool ELSE ReleasePageImpl(pool, i)
  /\ pageRefs' = [pageRefs EXCEPT ![buffer] = @ - 1]
  /\ retired' = IF pageRefs[buffer] = 1 /\ i # 0
                THEN retired \cup {[fKey |-> pool[i].fKey, fPage |-> pool[i].fPage]}
                ELSE retired
  /\ PoolCall("ReleasePage", buffer, NoRet)
  /\ UNCHANGED nPages

\* pool.Evict(n);
Evict(n) ==
  /\ pool' = EvictImpl(pool, n)
  /\ PoolCall("Evict", n, NoRet)
  /\ UNCHANGED <<pageRefs, nPages, retired>>

\* ------------------------------------------------ EstimateWriteMemoryUsage
\* std::size_t arithmetic: every result is taken modulo 2^SizeWidth.
SizeModulus == 2 ^ SizeWidth
Wrap(x) == x % SizeModulus

\* field.GetColumnRepresentatives(): one representative; a leaf has the
\* column of its values, a collection, a variant and an unsplit field have
\* one index (or switch) column, a record and an array have none.
GetColumnRepresentatives(node) ==
  IF node.fStructure = kLeaf
  THEN <<IF node.fTypeName = "float" THEN <<"kReal32">> ELSE <<"kInt32">>>>
  ELSE IF node.fStructure = kCollection THEN << <<"kIndex64">> >>
  ELSE IF node.fStructure = kVariant THEN << <<"kSwitch">> >>
  ELSE IF node.fStructure = kUnsplit THEN << <<"kIndex64">> >>
  ELSE << <<>> >>

\* RColumnElementBase::Generate(columnType)->GetSize(), in bytes.
GetSize(columnType) == IF columnType \in {"kReal32", "kInt32"} THEN 4 ELSE 8

\* The loops of lines 453-461 over the fields from position i on: nColumns
\* and minPageBufferSize after them.
RECURSIVE CountColumns(_, _, _, _)
CountColumns(zero, i, acc, opts) ==
  IF i > Len(Descendants(zero)) THEN acc
  ELSE LET r == GetColumnRepresentatives(NodeAt(zero, Descendants(zero)[i]))[1]
           size == IF r = <<>> THEN 0
                   ELSE Wrap(opts.fInitialNElementsPerPage * GetSize(r[1]))
       IN CountColumns(zero, i + 1,
                       [nColumns |-> Wrap(acc.nColumns + Len(r)),
                        minPageBufferSize |-> IF r = <<>> THEN acc.minPageBufferSize
                                              ELSE Wrap(acc.minPageBufferSize + size)],
                       opts)

\* RNTupleModel::EstimateWriteMemoryUsage(options), lines 446-479.
EstimateWriteMemoryUsageOf(model, opts) ==
  LET c == CountColumns(model.fFieldZero, 1, [nColumns |-> 0, minPageBufferSize |-> 0], opts)
      bytes == Min(opts.fPageBufferBudget, Wrap(c.nColumns * opts.fMaxUnzippedPageSize))
      buffered == Wrap(Wrap(bytes + c.minPageBufferSize) + opts.fApproxZippedClusterSize)
  IN IF ~opts.fUseBufferedWrite THEN bytes
     ELSE IF opts.fCompression # 0 /\ opts.fUseImplicitMT = "kDefault"
     THEN Wrap(buffered + Wrap(2 * opts.fApproxZippedClusterSize))
     ELSE buffered

\* options.Set...(value): one option of the writer is set.
SetOption(name, value) ==
  /\ options' = [options EXCEPT ![name] = value]
  /\ last' = [op |-> "SetOption", m |-> 0, arg |-> <<name, value>>, res |-> Ok, ret |-> NoRet]
  /\ UNCHANGED <<modelVars, poolVars, compatVars, threadVars>>

\* models[m]->EstimateWriteMemoryUsage(options)
EstimateWriteMemoryUsage(m) ==
  /\ ~crashed /\ Live(m)
  /\ last' = [op |-> "EstimateWriteMemoryUsage", m |-> m, arg |-> options, res |-> Ok,
              ret |-> EstimateWriteMemoryUsageOf(models[m], options)]
  /\ UNCHANGED <<modelVars, poolVars, compatVars, threadVars, options>>

\* ---------------------------------------------------------------- threads
\* One thread per slot, each working on the model of its slot.  A call that
\* needs an id is made of steps: the call starts, GetNewModelId runs once
\* (twice for Clone) and the call returns with the model built from the
\* ids drawn.  ++gLastModelId on the std::atomic is one step; the steps of
\* different threads interleave freely.
Idle == [op |-> "none", pc |-> "idle", ids |-> <<>>]

\* The number of ids a call draws: one in the constructor (line 227), one in
\* Unfreeze of a frozen model (line 426), two in Clone (lines 227 and 260).
IdsDrawn(op) == IF op = "Clone" THEN 2 ELSE 1

ThreadStep(t, op) ==
  /\ last' = [op |-> op, m |-> t, arg |-> NoArg, res |-> Ok, ret |-> NoRet]
  /\ UNCHANGED <<poolVars, compatVars, options>>
  /\ UNCHANGED <<writer, fNEntries, fNewModelId, fOpenChangeset, sink, token, crashed,
                 keptSchemaId, updating, unpaired>>

\* Thread t enters Create, Clone or Unfreeze.
ThreadBegin(t, op) ==
  /\ threads[t] = Idle
  /\ op = "Create" => ~Live(t)
  /\ op = "Clone" => Live(t)
  /\ op = "Unfreeze" => Live(t) /\ models[t].fIsFrozen
  /\ threads' = [threads EXCEPT ![t] = [op |-> op, pc |-> "GetNewModelId", ids |-> <<>>]]
  /\ ThreadStep(t, "Begin" \o op)
  /\ UNCHANGED <<gLastModelId, models, issued>>

\* return ++gLastModelId; in thread t.
ThreadGetNewModelId(t) ==
  /\ threads[t].pc = "GetNewModelId"
  /\ gLastModelId < MaxModelId
  /\ gLastModelId' = GetNewModelId(1)
  /\ issued' = Append(issued, GetNewModelId(1))
  /\ threads' = [threads EXCEPT
                   ![t].ids = Append(@, GetNewModelId(1)),
                   ![t].pc = IF Len(threads[t].ids) + 1 = IdsDrawn(threads[t].op)
                             THEN "return" ELSE "GetNewModelId"]
  /\ ThreadStep(t, "GetNewModelId")
  /\ UNCHANGED models

\* The call of thread t returns: the model made with the ids drawn takes
\* the slot of the thread (a clone takes the place of its source).
ThreadReturn(t) ==
  LET ids == threads[t].ids
      op == threads[t].op
  IN /\ threads[t].pc = "return"
     /\ models' = [models EXCEPT ![t] =
                     IF op = "Create" THEN CreateModel(RFieldZero, ids[1])
                     ELSE IF op = "Clone" THEN CloneModel(@, ids[1], ids[2])
                     ELSE UnfreezeModel(@, ids[1])]
     /\ threads' = [threads EXCEPT ![t] = Idle]
     /\ ThreadStep(t, op)
     /\ UNCHANGED <<gLastModelId, issued>>

\* Thread t freezes its model.
ThreadFreeze(t) ==
  /\ threads[t] = Idle /\ Live(t) /\ ~models[t].fIsFrozen
  /\ models' = [models EXCEPT ![t] = FreezeModel(@)]
  /\ ThreadStep(t, "Freeze")
  /\ UNCHANGED <<gLastModelId, threadVars>>

\* ------------------------------------------------ format compatibility
\* RNTupleDescriptor::kFeatureFlagTest, the flag no reader understands.
kFeatureFlagTest == 137
FeatureFlags == 0..MaxFeature \cup {kFeatureFlagTest}
\* The feature sets of the reader versions: none of them has the test flag.
ReaderVersions == SUBSET (0..MaxFeature)

NoFile == [null |-> "file"]
NoSource == [null |-> "page source"]
NoDescriptor == [null |-> "descriptor"]
ErrUnsupportedFeature == "unsupported format feature"
ErrNotAttached == "page source not attached"

\* The flags of a set, lowest first: the list a header carries.
RECURSIVE SerializeFeatureFlags(_)
SerializeFeatureFlags(flags) ==
  IF flags = {} THEN <<>>
  ELSE LET f == Lowest(flags) IN <<f>> \o SerializeFeatureFlags(flags \ {f})

\* The flags a header carries, read back in the order they are stored.
DeserializeFeatureFlags(header) == header.fFeatureFlags

\* serializer.SerializeHeaderV1(buffer, descriptor): the flags of the
\* descriptor verbatim, then the descriptor (name and field zero).
SerializeHeaderV1(flags) ==
  [fFeatureFlags |-> SerializeFeatureFlags(flags),
   fDescriptor |-> [fName |-> "ntpl", fFieldIds |-> {0}]]

\* What a reader that lets one unknown flag pass does.
DeserializeHeaderLenient(header, known) ==
  LET flags == DeserializeFeatureFlags(header)
      unknown == {i \in 1..Len(flags) : flags[i] \notin known}
  IN IF Cardinality(unknown) > 1
     THEN [res |-> ErrUnsupportedFeature, feature |-> flags[Lowest(unknown)],
           decoded |-> <<"feature flags">>, descriptor |-> NoDescriptor]
     ELSE [res |-> Ok, feature |-> NoRet,
           decoded |-> <<"feature flags", "descriptor">>, descriptor |-> header.fDescriptor]

\* The reader's side of the header: the flags are decoded first, and the
\* first one the reader does not understand ends the open with an error
\* that names it; the descriptor is interpreted only after all flags passed.
DeserializeHeader(header, known) ==
  LET flags == DeserializeFeatureFlags(header)
      unknown == {i \in 1..Len(flags) : flags[i] \notin known}
  IN IF unknown # {}
     THEN [res |-> ErrUnsupportedFeature, feature |-> flags[Lowest(unknown)],
           decoded |-> <<"feature flags">>, descriptor |-> NoDescriptor]
     ELSE [res |-> Ok, feature |-> NoRet,
           decoded |-> <<"feature flags", "descriptor">>, descriptor |-> header.fDescriptor]

CompatCall(op, arg, res, ret) ==
  /\ last' = [op |-> op, m |-> 0, arg |-> arg, res |-> res, ret |-> ret]
  /\ UNCHANGED <<modelVars, poolVars, threadVars, options>>

\* descBuilder.SetFeature(flag);
SetFeature(flag) ==
  /\ descBuilder' = descBuilder \cup {flag}
  /\ UNCHANGED <<file, pageSource>>
  /\ CompatCall("SetFeature", flag, Ok, NoRet)

\* RNTupleFileWriter::Recreate, WriteNTupleHeader, WriteNTupleFooter, Commit:
\* the file holds what the serializer made of the descriptor.
WriteNTuple ==
  /\ pageSource = NoSource
  /\ file' = [fHeader |-> SerializeHeaderV1(descBuilder)]
  /\ UNCHANGED <<descBuilder, pageSource>>
  /\ CompatCall("WriteNTuple", NoArg, Ok, NoRet)

\* auto pageSource = RPageSource::Create("ntpl", path), in a reader that
\* understands the features in known.
CreateSource(known) ==
  /\ file # NoFile
  /\ pageSource = NoSource
  /\ pageSource' = [fState |-> "created", fKnown |-> known, fDecoded |-> <<>>,
                    fDescriptor |-> NoDescriptor]
  /\ UNCHANGED <<descBuilder, file>>
  /\ CompatCall("CreateSource", known, Ok, NoRet)

\* pageSource->Attach();
AttachSource ==
  /\ pageSource # NoSource
  /\ pageSource.fState # "attached"
  /\ LET d == DeserializeHeader(file.fHeader, pageSource.fKnown) IN
     /\ pageSource' = [pageSource EXCEPT
                         !.fState = IF d.res = Ok THEN "attached" ELSE "failed",
                         !.fDecoded = d.decoded,
                         !.fDescriptor = d.descriptor]
     /\ CompatCall("Attach", NoArg, d.res, d.feature)
  /\ UNCHANGED <<descBuilder, file>>

\* pageSource->GetSharedDescriptorGuard()->GetFieldDescriptor(fieldId)
GetFieldDescriptor(fieldId) ==
  /\ pageSource # NoSource
  /\ IF pageSource.fDescriptor # NoDescriptor /\ fieldId \in pageSource.fDescriptor.fFieldIds
     THEN CompatCall("GetFieldDescriptor", fieldId, Ok, [fFieldId |-> fieldId])
     ELSE CompatCall("GetFieldDescriptor", fieldId, ErrNotAttached, NoRet)
  /\ UNCHANGED compatVars

\* pageSource->PopulatePage(column, index)
PopulatePage ==
  /\ pageSource # NoSource
  /\ IF pageSource.fState = "attached"
     THEN CompatCall("PopulatePage", NoArg, Ok, NewPage(1, 0))
     ELSE CompatCall("PopulatePage", NoArg, ErrNotAttached, NoRet)
  /\ UNCHANGED compatVars

\* pageSource = nullptr;
CloseSource ==
  /\ pageSource # NoSource
  /\ pageSource' = NoSource
  /\ UNCHANGED <<descBuilder, file>>
  /\ CompatCall("CloseSource", NoArg, Ok, NoRet)

\* ---------------------------------------------------------------- inputs
\* The fields a caller builds (RField<T> and its relatives).
LeafField(name, typeName) == MkField(name, kLeaf, typeName, 0, FALSE, <<>>)
CardinalityField(name) == MkField(name, kLeaf, "cardinality", 0, TRUE, <<>>)
VectorField(name, item) == MkField(name, kCollection, "vector", 0, FALSE, <<item>>)
RecordField(name, items) == MkField(name, kRecord, "struct", 0, FALSE, items)
VariantField(name, items) == MkField(name, kVariant, "variant", 0, FALSE, items)
UnsplitField(name) == MkField(name, kUnsplit, "blob", 0, FALSE, <<>>)
ArrayLength == 2
ArrayField(name, item) == MkField(name, kLeaf, "array", ArrayLength, FALSE, <<item>>)

PrefixMapping(prefix) == [table |-> [q \in {} |-> <<>>], prefix |-> prefix]

FieldNames == {"a", "b"}
FieldInputs ==
  {NullField, LeafField("", "float")} \cup {LeafField(n, "float") : n \in FieldNames}
ProjectedInputs ==
  {[field |-> f, mapping |-> PrefixMapping(<<n>>)] :
     f \in FieldInputs, n \in FieldNames}
Descriptions == {"d"}
\* The well-formed inputs among them.
ValidFieldInputs == {LeafField(n, "float") : n \in FieldNames}
ValidProjectedInputs ==
  {[field |-> f, mapping |-> PrefixMapping(<<n>>)] :
     f \in ValidFieldInputs, n \in FieldNames}

\* The life cycle of a model and of its clones, under a writer or not.
Next ==
  \/ Create
  \/ CreateBare
  \/ \E m \in ModelSlots : Clone(m)
  \/ \E m \in ModelSlots, f \in ValidFieldInputs : AddField(m, f)
  \/ \E m \in ModelSlots, i \in ValidProjectedInputs : AddProjectedField(m, i.field, i.mapping)
  \/ \E m \in ModelSlots : Freeze(m)
  \/ \E m \in ModelSlots : Unfreeze(m)
  \/ \E m \in ModelSlots, n \in FieldNames : GetToken(m, n)
  \/ \E m \in ModelSlots : MakeWriter(m)
  \/ BeginUpdate
  \/ CommitUpdate
  \/ \E f \in ValidFieldInputs : UpdaterAddField(f)

Spec == Init /\ [][Next]_vars

\* One model and the calls that require it frozen or unfrozen.
NextAccess ==
  \/ Create
  \/ CreateBare
  \/ \E f \in FieldInputs : AddField(1, f)
  \/ \E i \in ProjectedInputs : AddProjectedField(1, i.field, i.mapping)
  \/ Freeze(1)
  \/ Unfreeze(1)
  \/ \E d \in Descriptions : SetDescription(1, d)
  \/ GetFieldZero(1)
  \/ GetDefaultEntry(1)
  \/ GetDefaultEntryConst(1)
  \/ CreateEntry(1)
  \/ CreateBareEntry(1)
  \/ \E n \in FieldNames : GetToken(1, n)
  \/ \E n \in FieldNames : CreateBulk(1, <<n>>)

SpecAccess == Init /\ [][NextAccess]_vars

\* A writer, its updater, and the rows appended in between.
NextUpdate ==
  \/ Create
  \/ CreateBare
  \/ \E f \in ValidFieldInputs : AddField(1, f)
  \/ \E i \in ValidProjectedInputs : AddProjectedField(1, i.field, i.mapping)
  \/ Freeze(1)
  \/ Unfreeze(1)
  \/ \E d \in Descriptions : SetDescription(1, d)
  \/ MakeWriter(1)
  \/ CreateEntry(1)
  \/ \E e \in FillCandidates : Fill(e)
  \/ BeginUpdate
  \/ CommitUpdate
  \/ \E f \in FieldInputs : UpdaterAddField(f)
  \/ \E i \in ProjectedInputs : UpdaterAddProjectedField(i.field, i.mapping)

SpecUpdate == Init /\ [][NextUpdate]_vars

\* Projected fields over structured sources, on one model.
Float == LeafField("_0", "float")
SourceInputs ==
  { LeafField("a", "float"),
    VectorField("v", Float),
    VectorField("w", LeafField("_0", "int")),
    RecordField("r", <<LeafField("x", "float"), VectorField("v", Float)>>),
    ArrayField("arr", Float),
    VariantField("var", <<Float>>) }
TargetInputs ==
  { NullField,
    LeafField("", "float"),
    LeafField("a", "float"),
    LeafField("p", "float"),
    LeafField("p", "int"),
    CardinalityField("p"),
    VectorField("p", Float) }
MappingInputs ==
  {PrefixMapping(q) : q \in {<<"a">>, <<"v">>, <<"w">>, <<"r", "x">>, <<"r", "v">>,
                             <<"arr", "_0">>, <<"var", "_0">>}}
    \cup {[table |-> (<<"p">> :> <<"r", "v">>) @@ (<<"p", "_0">> :> <<"r", "x">>),
           prefix |-> <<"none">>]}

NextProjected ==
  \/ Create
  \/ CreateBare
  \/ \E f \in SourceInputs : AddField(1, f)
  \/ \E f \in TargetInputs, mp \in MappingInputs : AddProjectedField(1, f, mp)
  \/ Freeze(1)
  \/ Unfreeze(1)

SpecProjected == Init /\ [][NextProjected]_vars

\* Projected fields of every structural kind over sources of every kind.
KindSourceNames == {"a", "v", "r", "var", "u", "arr"}
KindSources ==
  { LeafField("a", "float"),
    VectorField("v", Float),
    RecordField("r", <<Float>>),
    VariantField("var", <<Float>>),
    UnsplitField("u"),
    ArrayField("arr", Float) }
KindTargets ==
  { LeafField("p", "float"),
    CardinalityField("p"),
    VectorField("p", Float),
    RecordField("p", <<Float>>),
    VariantField("p", <<Float>>),
    UnsplitField("p"),
    ArrayField("p", Float) }
\* p and p._0 both go to the top-level field n.
ConstMapping(n) == [table |-> (<<"p", "_0">> :> <<n>>), prefix |-> <<n>>]
KindMappings ==
  {ConstMapping(n) : n \in KindSourceNames}
    \cup {PrefixMapping(<<n>>) : n \in KindSourceNames}
    \cup {PrefixMapping(<<"arr", "_0">>),
          [table |-> (<<"p", "_0">> :> <<"a">>), prefix |-> <<"arr">>]}

NextMapping ==
  \/ Create
  \/ \E f \in KindSources : AddField(1, f)
  \/ \E f \in KindTargets, mp \in KindMappings : AddProjectedField(1, f, mp)

SpecMapping == Init /\ [][NextMapping]_vars

\* A model that is built, described, frozen, unfrozen and cloned.
NextClone ==
  \/ Create
  \/ CreateBare
  \/ \E f \in ValidFieldInputs : AddField(1, f)
  \/ \E i \in ValidProjectedInputs : AddProjectedField(1, i.field, i.mapping)
  \/ \E d \in Descriptions : SetDescription(1, d)
  \/ Freeze(1)
  \/ Unfreeze(1)
  \/ \E m \in ModelSlots : Clone(m)

SpecClone == Init /\ [][NextClone]_vars

\* A page pool and its callers: the keys and the indices of the pool tests.
PoolKeys == {RKey(0, "void"), RKey(1, "void"), RKey(1, "int")}
PooledKeys == {RKey(1, "void"), RKey(1, "int")}
PoolWindows == {RangeFirst, RangeFirst + PageElements}
PoolIndices ==
  {GlobalIndex(g) : g \in {RangeFirst - 1, RangeFirst, RangeFirst + PageElements - 1,
                           RangeFirst + PageElements, RangeFirst + 2 * PageElements}}
    \cup {RClusterIndex(c, RangeFirst - IndexOffset + d) : c \in {0, ClusterId}, d \in {-1, 0}}

NextPool ==
  \/ \E key \in PooledKeys, w \in PoolWindows : RegisterPage(key, w)
  \/ \E key \in PooledKeys, w \in PoolWindows : PreloadPage(key, w)
  \/ \E key \in PoolKeys, index \in PoolIndices : GetPage(key, index)
  \/ \E buffer \in 1..MaxPages : ReleasePage(buffer)
  \/ \E n \in 0..MaxEvict : Evict(n)

SpecPool == Init /\ [][NextPool]_vars

\* Projected fields whose break points (the nearest ancestors that are
\* neither records nor leaves) differ between source and target.
BreakSources ==
  { LeafField("a", "float"),
    VectorField("v", Float),
    VectorField("w", Float),
    RecordField("r", <<VectorField("v", Float), VectorField("w", Float)>>),
    VariantField("var", <<Float>>) }
BreakTargets ==
  { LeafField("p", "float"),
    VectorField("p", Float),
    VariantField("p", <<Float>>) }
\* p goes to the field at path n and p._0 to the field at path q.
SplitMapping(n, q) == [table |-> (<<"p", "_0">> :> q), prefix |-> n]
BreakMappings ==
  {PrefixMapping(<<n>>) : n \in {"a", "v", "w", "var"}}
    \cup {PrefixMapping(<<"v", "_0">>), PrefixMapping(<<"var", "_0">>)}
    \cup {SplitMapping(<<"v">>, <<"a">>), SplitMapping(<<"v">>, <<"w", "_0">>),
          SplitMapping(<<"var">>, <<"a">>), SplitMapping(<<"var">>, <<"v", "_0">>),
          SplitMapping(<<"r", "v">>, <<"r", "w", "_0">>),
          SplitMapping(<<"r", "v">>, <<"r", "v", "_0">>)}

NextBreakPoint ==
  \/ Create
  \/ \E f \in BreakSources : AddField(1, f)
  \/ \E f \in BreakTargets, mp \in BreakMappings : AddProjectedField(1, f, mp)

SpecBreakPoint == Init /\ [][NextBreakPoint]_vars

\* Write options over the whole range of std::size_t, and fields with one
\* column and with two.
EstimateFields ==
  {LeafField("a", "float"), LeafField("b", "int"), VectorField("v", Float)}
OptionValues ==
  [fPageBufferBudget |-> {0, SizeModulus \div 2, SizeModulus - 1},
   fMaxUnzippedPageSize |-> {1, SizeModulus \div 2},
   fInitialNElementsPerPage |-> {1, SizeModulus \div 8},
   fApproxZippedClusterSize |-> {0, 1},
   fUseBufferedWrite |-> BOOLEAN,
   fCompression |-> {0, 505},
   fUseImplicitMT |-> {"kOff", "kDefault"}]

NextEstimate ==
  \/ Create
  \/ \E f \in EstimateFields : AddField(1, f)
  \/ \E name \in DOMAIN OptionValues : \E value \in OptionValues[name] : SetOption(name, value)
  \/ EstimateWriteMemoryUsage(1)

SpecEstimate == Init /\ [][NextEstimate]_vars

NextThreads ==
  \/ \E t \in ModelSlots, op \in {"Create", "Clone", "Unfreeze"} : ThreadBegin(t, op)
  \/ \E t \in ModelSlots : ThreadGetNewModelId(t)
  \/ \E t \in ModelSlots : ThreadReturn(t)
  \/ \E t \in ModelSlots : ThreadFreeze(t)

SpecThreads == Init /\ [][NextThreads]_vars

NextCompat ==
  \/ \E flag \in FeatureFlags : SetFeature(flag)
  \/ WriteNTuple
  \/ \E known \in ReaderVersions : CreateSource(known)
  \/ AttachSource
  \/ GetFieldDescriptor(0)
  \/ PopulatePage
  \/ CloseSource

SpecCompat == Init /\ [][NextCompat]_vars

\* ---------------------------------------------------------------- claims
LiveSlots == {m \in ModelSlots : Live(m)}

\* C1: in every state after a BeginUpdate and before the next CommitUpdate
\* the writer's model is unfrozen and its model id is the zero placeholder,
\* so that Fill rejects every entry.
C1_UpdateWindowBlocksFill ==
  updating =>
    /\ ~models[writer].fIsFrozen
    /\ models[writer].fModelId = 0
    /\ \A e \in FillCandidates : FillOutcome(models[writer], e) # Ok

\* C2: right after every CommitUpdate the writer's model is frozen and its
\* model id is the real, nonzero id, equal to its schema id.
C2_CommitRestoresModelId ==
  last.op = "CommitUpdate" =>
    /\ models[writer].fIsFrozen
    /\ models[writer].fModelId # 0
    /\ models[writer].fModelId = models[writer].fSchemaId

\* C3 as claimed: the model id of every model equals its schema id, except
\* in the update window, where the model id is zero.
C3_ModelIdIsSchemaId ==
  \A m \in LiveSlots :
    IF m = writer /\ updating THEN models[m].fModelId = 0
    ELSE models[m].fModelId = models[m].fSchemaId

\* C3 as amended: the model id of every model equals its schema id, except
\* (a) in a frozen clone of a frozen model, which carries the schema id of
\* its source, an id issued before its own model id; (b) in the writer's
\* model between a BeginUpdate and the CommitUpdate paired with it, where
\* the model id is zero and the updater holds the schema id; (c) in the
\* writer's model once updater calls were unpaired, where the schema id is
\* the model id or the id the updater holds, unless (a) applies.
C3_ModelIdIsSchemaIdAmended ==
  \A m \in LiveSlots :
    LET model == models[m]
        frozenClone == m \in keptSchemaId /\ model.fIsFrozen
    IN
    IF m = writer /\ updating /\ ~unpaired
    THEN model.fModelId = 0 /\ model.fSchemaId = fNewModelId
    ELSE IF m = writer /\ unpaired
    THEN model.fSchemaId \in {model.fModelId, fNewModelId} \/ frozenClone
    ELSE \/ model.fModelId = model.fSchemaId
         \/ frozenClone /\ model.fSchemaId < model.fModelId

\* A frozen clone carries the schema id of its frozen source, under a model
\* id of its own.
C3_Witness ==
  \E m \in LiveSlots :
    /\ last.op = "Clone" /\ last.m = m /\ models[m].fIsFrozen
    /\ models[m].fSchemaId = models[last.arg].fSchemaId
    /\ models[m].fModelId # models[m].fSchemaId

\* A step in which models[m]->Unfreeze() runs on a frozen model, called by
\* the owner or by BeginUpdate.
UnfreezesFrozen(m) ==
  /\ last'.op \in {"Unfreeze", "BeginUpdate"} /\ last'.m = m
  /\ Live(m) /\ models[m].fIsFrozen

\* C4: Unfreeze gives a frozen model a schema id it did not have before, and
\* a token issued before carries a schema id that differs from the model's
\* schema id from then on, whatever is called afterwards.
C4_UnfreezeStalesTokens ==
  [][/\ \A m \in ModelSlots :
          UnfreezesFrozen(m) =>
            /\ models'[m].fSchemaId # models[m].fSchemaId
            /\ (token # NoToken /\ token.m = m) =>
                 models'[m].fSchemaId # token.fSchemaId
     /\ (token # NoToken /\ token' = token
           /\ token.fSchemaId # models[token.m].fSchemaId) =>
          token.fSchemaId # models'[token.m].fSchemaId]_vars

\* The model of the held token was unfrozen after the token was issued, and
\* frozen again.
C4_Witness ==
  /\ token # NoToken
  /\ last.op = "Freeze" /\ last.m = token.m
  /\ token.fSchemaId # models[token.m].fSchemaId

\* The steps that add a field to models[m].
AddsField(m) ==
  /\ last'.op \in {"AddField", "AddProjectedField", "UpdaterAddField",
                    "UpdaterAddProjectedField"}
  /\ last'.m = m /\ last'.res = Ok

\* C5 as claimed: the schema id of a model changes only in a step that adds
\* a field to it.
C5_SchemaIdChangesOnAdd ==
  [][\A m \in ModelSlots :
       (Live(m) /\ models'[m].fSchemaId # models[m].fSchemaId) => AddsField(m)]_vars

\* C5 as amended: the schema id of a model changes only when Unfreeze runs
\* on it while it is frozen (called by the owner or by BeginUpdate); adding
\* a field, a failed addition, Freeze, SetDescription, CommitUpdate, and
\* Unfreeze or BeginUpdate on an unfrozen model leave it unchanged.
C5_SchemaIdChangesOnUnfreeze ==
  [][\A m \in ModelSlots :
       Live(m) =>
         /\ models'[m].fSchemaId # models[m].fSchemaId => UnfreezesFrozen(m)
         /\ (AddsField(m) \/ (last'.op = "Freeze" /\ last'.m = m)) =>
              models'[m].fSchemaId = models[m].fSchemaId]_vars

\* A model with a field was frozen again after an Unfreeze gave it a new
\* schema id.
C5_Witness ==
  /\ last.op = "Freeze" /\ Live(last.m)
  /\ models[last.m].fFieldNames # {}
  /\ models[last.m].fSchemaId > 1
  /\ models[last.m].fSchemaId = models[last.m].fModelId

\* C6: on a frozen model AddField, AddProjectedField and SetDescription
\* fail with the "model is frozen" error whatever the argument, and the
\* model (field tree, names, projected fields, default entry, description,
\* frozen flag, ids) is as before.
C6_FrozenRejectsMutation ==
  [][(/\ last'.op \in {"AddField", "AddProjectedField", "SetDescription"}
      /\ models[last'.m].fIsFrozen)
       => (last'.res = ErrFrozen /\ models' = models)]_vars

\* AddProjectedField of a null field was refused because the model is frozen.
C6_Witness ==
  /\ last.op = "AddProjectedField" /\ last.res = ErrFrozen
  /\ last.arg.field = NullField

\* C7: on an unfrozen model GetFieldZero, CreateEntry, CreateBareEntry and
\* CreateBulk fail with the "model not frozen" error and return nothing; on
\* a frozen model CreateEntry and CreateBareEntry return an entry stamped
\* with the model's ids that holds one value per top-level field, in order.
\* (These calls leave the model as it is, so the model after the call is the
\* model the call saw.)
C7_UnfrozenRejectsAccess ==
  LET model == models[last.m] IN
  /\ (last.op \in {"GetFieldZero", "CreateEntry", "CreateBareEntry", "CreateBulk"}
        /\ ~model.fIsFrozen)
       => (last.res = ErrNotFrozen /\ last.ret = NoRet)
  /\ (last.op \in {"CreateEntry", "CreateBareEntry"} /\ model.fIsFrozen)
       => /\ last.res = Ok
          /\ last.ret.fModelId = model.fModelId
          /\ last.ret.fSchemaId = model.fSchemaId
          /\ Len(last.ret.fValues) = Len(model.fFieldZero.fSubFields)
          /\ \A i \in 1..Len(last.ret.fValues) :
               last.ret.fValues[i] = model.fFieldZero.fSubFields[i].fName

\* CreateEntry was refused on an unfrozen model that has a field.
C7_Witness ==
  /\ last.op = "CreateEntry" /\ last.res = ErrNotFrozen
  /\ models[last.m].fFieldZero.fSubFields # <<>>

\* C8: on an unfrozen model GetToken and both GetDefaultEntry accessors fail
\* with the "model not frozen" error; no token and no default entry is
\* handed out while the model is unfrozen.
C8_UnfrozenRejectsTokenAndDefaultEntry ==
  (/\ \/ last.op = "GetToken"
      \/ /\ last.op \in {"GetDefaultEntry", "GetDefaultEntryConst"}
         /\ models[last.m].fDefaultEntry # NoEntry
   /\ ~models[last.m].fIsFrozen)
    => (last.res = ErrNotFrozen /\ last.ret = NoRet)

\* The names of the fields added at top level, regular and projected.
TopLevelNames(model) ==
  {model.fFieldZero.fSubFields[i].fName : i \in 1..Len(model.fFieldZero.fSubFields)}
    \cup {model.fProjectedFields.fFieldZero.fSubFields[i].fName :
            i \in 1..Len(model.fProjectedFields.fFieldZero.fSubFields)}

\* A step that adds to the unfrozen models[m] a field whose name a top-level
\* field of the model has.
AddsDuplicate(m) ==
  /\ last'.m = m /\ Live(m) /\ ~models[m].fIsFrozen
  /\ \/ /\ last'.op = "AddField" /\ last'.arg # NullField
        /\ last'.arg.fName \in TopLevelNames(models[m])
     \/ /\ last'.op = "AddProjectedField" /\ last'.arg.field # NullField
        /\ last'.arg.field.fName \in TopLevelNames(models[m])

\* C9 as claimed: such a call fails with the duplicate-name error and leaves
\* the model as it was.
C9_DuplicateNameRejected ==
  [][\A m \in ModelSlots :
       AddsDuplicate(m) => (last'.res = ErrDuplicate /\ models' = models)]_vars

\* C9 as amended: such a call fails and leaves the model as it was; the
\* error is the duplicate-name error, except that AddProjectedField reports
\* "no such field" when the source path of the field or of one of its
\* descendants does not resolve, which it checks first.
C9_DuplicateNameRejectedAmended ==
  [][\A m \in ModelSlots :
       AddsDuplicate(m) =>
         /\ models' = models
         /\ IF last'.op = "AddProjectedField"
                 /\ ~AllResolved(models[m], last'.arg.field, last'.arg.mapping)
            THEN last'.res = ErrNoSuchField
            ELSE last'.res = ErrDuplicate]_vars

\* AddProjectedField was refused for a name the model already has.
C9_Witness ==
  /\ last.op = "AddProjectedField" /\ last.res = ErrDuplicate
  /\ last.arg.field.fName \in TopLevelNames(models[last.m])

\* The targets of AddProjectedField(field, ...): the field and its descendants.
Targets(field) == {<<>>} \cup {Descendants(field)[i] : i \in 1..Len(Descendants(field))}

\* C10: AddProjectedField is all-or-nothing.  When it fails, for whatever
\* reason, the model (its field tree, names, projected fields and their
\* table) is as before; when it succeeds, the field is the last projected
\* field, the table maps the field and every descendant of it to the field
\* its source path names, and the name is recorded.
C10_AddProjectedAllOrNothing ==
  [][last'.op = "AddProjectedField" =>
       LET m == last'.m
           field == last'.arg.field
           mapping == last'.arg.mapping
           pf == models'[m].fProjectedFields
           k == Len(pf.fFieldZero.fSubFields)
       IN
       IF last'.res # Ok THEN models' = models
       ELSE /\ k = Len(models[m].fProjectedFields.fFieldZero.fSubFields) + 1
            /\ pf.fFieldZero.fSubFields[k] = field
            /\ \A p \in Targets(field) :
                 /\ <<k>> \o p \in DOMAIN pf.fFieldMap
                 /\ pf.fFieldMap[<<k>> \o p] =
                      FindField(models[m],
                                ApplyMapping(mapping, GetQualifiedFieldName(field, p)))
            /\ \A q \in DOMAIN models[m].fProjectedFields.fFieldMap :
                 q \in DOMAIN pf.fFieldMap
                   /\ pf.fFieldMap[q] = models[m].fProjectedFields.fFieldMap[q]
            /\ field.fName \in models'[m].fFieldNames
            /\ models'[m].fFieldZero = models[m].fFieldZero]_vars

\* AddProjectedField failed on a descendant after the field itself had been
\* accepted.
C10_Witness ==
  /\ last.op = "AddProjectedField" /\ last.res = ErrType
  /\ last.arg.field.fStructure = kCollection

\* A step in which AddProjectedField(field, mapping) on models[m] reaches
\* RProjectedFields::Add: the model is unfrozen, the field is not null,
\* every source path resolves and the name is accepted.
ReachesAdd(m) ==
  /\ last'.op = "AddProjectedField" /\ last'.m = m /\ Live(m)
  /\ ~models[m].fIsFrozen
  /\ last'.arg.field # NullField
  /\ AllResolved(models[m], last'.arg.field, last'.arg.mapping)
  /\ EnsureValidFieldName(models[m], last'.arg.field.fName) = Ok

\* The structural kinds of a source s and a target t go together.
KindsCompatible(s, t) ==
  \/ s.fStructure = t.fStructure
  \/ s.fStructure = kCollection /\ t.fIsCardinality

\* C11: a mapping passes the structural-kind check exactly when the kinds of
\* source and target are identical or the source is a collection and the
\* target a cardinality leaf.  The field itself is checked first, so a
\* mismatch of its kinds is what the call reports; a call reports a
\* structural mismatch only if some target's kinds mismatch, and a call
\* that succeeds has no such target.
C11_StructuralKindCheck ==
  [][\A m \in ModelSlots :
       ReachesAdd(m) =>
         LET field == last'.arg.field
             zero == models[m].fFieldZero
             fm == ResolvedMap(models[m], field, last'.arg.mapping)
             bad(p) == ~KindsCompatible(NodeAt(zero, fm[p]), NodeAt(field, p))
         IN /\ bad(<<>>) => last'.res = ErrStructural
            /\ last'.res = ErrStructural => \E p \in Targets(field) : bad(p)
            /\ last'.res = Ok => \A p \in Targets(field) : ~bad(p)]_vars

\* A cardinality field was projected onto a collection.
C11_Witness ==
  /\ last.op = "AddProjectedField" /\ last.res = Ok
  /\ last.arg.field.fIsCardinality
  /\ NodeAt(models[last.m].fFieldZero,
            FindField(models[last.m], last.arg.mapping.prefix)).fStructure = kCollection

\* C12: a mapping whose source or target has an ancestor with a repetition
\* count above zero is rejected whenever it is validated, by one of the
\* checks up to the array check; a call that carries such a mapping does
\* not succeed and leaves the model as it was, and no model's table of
\* projected fields ever holds such a mapping.
C12_ArrayAncestorRejected ==
  [][/\ \A m \in ModelSlots :
          ReachesAdd(m) =>
            LET field == last'.arg.field
                zero == models[m].fFieldZero
                fm == ResolvedMap(models[m], field, last'.arg.mapping)
                arr(p) == fnHasArrayParent(zero, fm[p]) \/ fnHasArrayParent(field, p)
            IN /\ \A p \in Targets(field) :
                    arr(p) => EnsureValidMapping(field, zero, p, fm)
                                \subseteq {ErrStructural, ErrType, ErrArray}
               /\ (\E p \in Targets(field) : arr(p)) =>
                    (last'.res # Ok /\ models' = models)
     /\ \A m \in ModelSlots :
          models'[m] # NoModel =>
            LET pf == models'[m].fProjectedFields IN
            \A q \in DOMAIN pf.fFieldMap :
              /\ ~fnHasArrayParent(pf.fFieldZero, q)
              /\ ~fnHasArrayParent(models'[m].fFieldZero, pf.fFieldMap[q])]_vars

\* A float was refused as a projection of the item of an array, whose kind
\* and type it has.
C12_Witness ==
  /\ last.op = "AddProjectedField" /\ last.res = ErrArray
  /\ last.arg.field = LeafField("p", "float")
  /\ last.arg.mapping = PrefixMapping(<<"arr", "_0">>)

\* C13: Clone returns a model whose model id is none of the ids issued
\* before (so not the source's), whose frozen flag, names and description
\* are the source's, and whose schema id is the source's if the source is
\* frozen and the clone's own model id if not; the source is as before.
C13_CloneIds ==
  [][last'.op = "Clone" =>
       LET source == models[last'.arg]
           clone == models'[last'.m]
       IN /\ clone.fModelId > gLastModelId
          /\ \A m \in LiveSlots :
               clone.fModelId \notin {models[m].fModelId, models[m].fSchemaId}
          /\ clone.fIsFrozen = source.fIsFrozen
          /\ clone.fFieldNames = source.fFieldNames
          /\ clone.fDescription = source.fDescription
          /\ clone.fSchemaId = IF source.fIsFrozen THEN source.fSchemaId
                               ELSE clone.fModelId
          /\ models'[last'.arg] = source]_vars

\* A frozen model with a description and a field was cloned.
C13_Witness ==
  /\ last.op = "Clone"
  /\ models[last.m].fIsFrozen
  /\ models[last.m].fDescription \in Descriptions
  /\ models[last.m].fFieldNames # {}
  /\ models[last.m].fSchemaId = models[last.arg].fSchemaId

\* The names of the fields handed to the sink so far, commit by commit,
\* followed by those waiting in the open changeset.
RECURSIVE Committed(_, _)
Committed(changesets, part) ==
  IF changesets = <<>> THEN <<>>
  ELSE Head(changesets)[part] \o Committed(Tail(changesets), part)
Handed(part) == Committed(sink, part) \o fOpenChangeset[part]
Once(seq) == \A i, j \in 1..Len(seq) : seq[i] = seq[j] => i = j

\* C14: CommitUpdate calls UpdateSchema exactly when the open changeset is
\* not empty, with the fields and projected fields of the changeset and the
\* writer's entry count, and leaves the open changeset empty; nothing else
\* writes to the sink.  A field joins the changeset when, and only when,
\* its addition through the updater succeeds, so the fields handed to the
\* sink plus those waiting are the fields added, each once, in order.
C14_ChangesetHandedOnce ==
  [][/\ IF last'.op = "CommitUpdate"
        THEN /\ fOpenChangeset' = EmptyChangeset
             /\ IF fOpenChangeset = EmptyChangeset THEN sink' = sink
                ELSE sink' = Append(sink,
                       [fAddedFields |-> fOpenChangeset.fAddedFields,
                        fAddedProjectedFields |-> fOpenChangeset.fAddedProjectedFields,
                        nEntries |-> fNEntries])
        ELSE sink' = sink
     /\ Handed("fAddedFields")' =
          IF last'.op = "UpdaterAddField" /\ last'.res = Ok
          THEN Append(Handed("fAddedFields"), last'.arg.fName)
          ELSE Handed("fAddedFields")
     /\ Handed("fAddedProjectedFields")' =
          IF last'.op = "UpdaterAddProjectedField" /\ last'.res = Ok
          THEN Append(Handed("fAddedProjectedFields"), last'.arg.field.fName)
          ELSE Handed("fAddedProjectedFields")
     /\ Once(Handed("fAddedFields")') /\ Once(Handed("fAddedProjectedFields")')]_vars

\* Two update cycles were committed, the second after a row was written and
\* with a projected field in its changeset.
C14_Witness ==
  /\ last.op = "CommitUpdate" /\ Len(sink) = 2
  /\ sink[1].fAddedFields # <<>>
  /\ sink[2].fAddedProjectedFields # <<>> /\ sink[2].nEntries > 0

\* The buffers of the pooled pages, and the entries without those of a set
\* of buffers.
Buffers(entries) == {entries[i].fPage.fBuffer : i \in 1..Len(entries)}
RECURSIVE Without(_, _)
Without(entries, buffers) ==
  IF entries = <<>> THEN <<>>
  ELSE IF Head(entries).fPage.fBuffer \in buffers THEN Without(Tail(entries), buffers)
  ELSE <<Head(entries)>> \o Without(Tail(entries), buffers)

\* C15: Evict(n) removes entries whose use count is zero and nothing else,
\* the oldest ones, n of them or all if there are fewer: an empty pool
\* stays empty, the other entries stay as they are, among them every entry
\* with a live scoped reference, and the oldest entry with use count zero
\* (such as a page preloaded and never checked out) goes if n is at least 1.
C15_EvictOnlyUnused ==
  [][last'.op = "Evict" =>
       LET n == last'.arg
           unused == {i \in 1..Len(pool) : pool[i].fRefCounter = 0}
           removed == Buffers(pool) \ Buffers(pool')
           gone == {i \in 1..Len(pool) : pool[i].fPage.fBuffer \in removed}
       IN /\ pool' = Without(pool, removed)
          /\ gone \subseteq unused
          /\ Cardinality(gone) = Min(n, Cardinality(unused))
          /\ \A i \in gone, j \in unused \ gone : i < j
          /\ \A b \in 1..MaxPages : pageRefs[b] > 0 => b \in Buffers(pool')
          /\ (n >= 1 /\ unused # {}) => pool[Lowest(unused)].fPage.fBuffer \in removed
          /\ UNCHANGED pageRefs]_vars

\* Evict left the page in use where it was and removed the page that was
\* preloaded before it.
C15_Witness ==
  /\ last.op = "Evict" /\ nPages = 2 /\ retired = {}
  /\ Len(pool) = 1 /\ pool[1].fPage.fBuffer = 2 /\ pool[1].fRefCounter = 1

\* C16 as claimed: an entry leaves the pool only in an Evict; the other
\* operations, the release of a scoped reference among them, keep every
\* entry.
C16_OnlyEvictRemoves ==
  [][Buffers(pool) \ Buffers(pool') # {} => last'.op = "Evict"]_vars

\* C16 as amended: the release of a scoped reference takes one off the use
\* count of its entry and leaves the other entries alone; the entry stays
\* in the pool while references to its page remain and leaves it when the
\* last one is released.  Entries leave the pool in no other way than this
\* and Evict.
C16_ReleaseDecrements ==
  [][/\ last'.op = "ReleasePage" =>
          LET b == last'.arg
              i == FindBuffer(pool, b)
          IN /\ i # 0 /\ pool[i].fRefCounter = pageRefs[b]
             /\ IF pageRefs[b] > 1
                THEN pool' = [pool EXCEPT ![i].fRefCounter = @ - 1]
                ELSE pool' = Without(pool, {b})
     /\ Buffers(pool) \ Buffers(pool') # {} => last'.op \in {"ReleasePage", "Evict"}]_vars

\* One of two references to a page was released and the page is still pooled.
C16_Witness ==
  /\ last.op = "ReleasePage" /\ pageRefs[last.arg] = 1
  /\ last.arg \in Buffers(pool)

\* C17: once the last scoped reference to a pooled page is released, a
\* GetPage with the page's key and an index of its window finds nothing,
\* with no Evict in between; and no GetPage ever returns a page whose
\* references were all released.
C17_ReleasedPageIsGone ==
  [][/\ (last'.op = "ReleasePage" /\ pageRefs'[last'.arg] = 0) =>
          LET i == FindBuffer(pool, last'.arg) IN
          /\ i # 0
          /\ \A index \in PoolIndices :
               Contains(pool[i].fPage, index) => FindPage(pool', pool[i].fKey, index) = 0
     /\ last'.op = "GetPage" =>
          \A r \in retired' : last'.ret.fBuffer # r.fPage.fBuffer]_vars

\* Two references to the only page ever pooled were released, no Evict was
\* called, and GetPage with its key and an index of its window returned the
\* null page.
C17_Witness ==
  /\ last.op = "GetPage" /\ IsNull(last.ret) /\ pool = <<>> /\ nPages = 2
  /\ \E r \in retired :
       /\ retired = {r}
       /\ r.fKey = last.arg.key /\ Contains(r.fPage, last.arg.index)

\* C18: GetPage(key, index) returns a page exactly when the pool holds an
\* entry with the column id and the element type of the key whose window
\* has the index: a global index from the first to the last element of the
\* page, or an index of the page's cluster from the first to the last
\* element counted from the start of the cluster.  Otherwise it returns the
\* null page; it never fails.  The page returned is such an entry's, and it
\* reports the window it was stamped with.
C18_GetPageFindsWindow ==
  [][last'.op = "GetPage" =>
       LET key == last'.arg.key
           index == last'.arg.index
           page == last'.ret
           has(q) ==
             IF index \in {GlobalIndex(g) : g \in 0..(RangeFirst + 3 * PageElements)}
             THEN q.fRangeFirst <= index.fGlobalIndex
                    /\ index.fGlobalIndex < q.fRangeFirst + q.fNElements
             ELSE /\ index.fClusterId = q.fClusterInfo.fId
                  /\ q.fRangeFirst - q.fClusterInfo.fIndexOffset <= index.fIndex
                  /\ index.fIndex
                       < q.fRangeFirst - q.fClusterInfo.fIndexOffset + q.fNElements
           matches == {i \in 1..Len(pool) :
                         /\ pool[i].fKey.fColumnId = key.fColumnId
                         /\ pool[i].fKey.fType = key.fType
                         /\ has(pool[i].fPage)}
       IN /\ last'.res = Ok
          /\ ~IsNull(page) <=> matches # {}
          /\ ~IsNull(page) =>
               /\ \E i \in matches : pool[i].fPage = page
               /\ GetGlobalRangeFirst(page) \in PoolWindows
               /\ GetGlobalRangeLast(page) = GetGlobalRangeFirst(page) + PageElements - 1
               /\ GetClusterRangeFirst(page) = GetGlobalRangeFirst(page) - IndexOffset
               /\ GetClusterRangeLast(page) = GetClusterRangeFirst(page) + PageElements - 1]_vars

\* The page of the pool test was found by a cluster index: global range
\* 50 to 59, cluster range 10 to 19.
C18_Witness ==
  /\ last.op = "GetPage" /\ ~IsNull(last.ret)
  /\ last.arg.index = RClusterIndex(ClusterId, RangeFirst - IndexOffset)
  /\ GetGlobalRangeFirst(last.ret) = 50 /\ GetGlobalRangeLast(last.ret) = 59
  /\ GetClusterRangeFirst(last.ret) = 10 /\ GetClusterRangeLast(last.ret) = 19

\* C19: RegisterPage with a page whose key and window are those of a pooled
\* page in use returns a reference to the pooled page, not to the new one,
\* and adds no entry; the pool never holds two entries with the same key
\* and window.
C19_RegisterTwice ==
  [][/\ last'.op = "RegisterPage" =>
          \A i \in 1..Len(pool) :
            (/\ pool[i].fKey = last'.arg.key
             /\ SameWindow(pool[i].fPage, last'.arg.page)
             /\ pool[i].fRefCounter > 0)
              => /\ last'.ret.fBuffer = pool[i].fPage.fBuffer
                 /\ last'.ret.fBuffer # last'.arg.page.fBuffer
                 /\ Len(pool') = Len(pool)
                 /\ pool'[i].fRefCounter = pool[i].fRefCounter + 1
     /\ \A i, j \in 1..Len(pool') :
          (pool'[i].fKey = pool'[j].fKey /\ SameWindow(pool'[i].fPage, pool'[j].fPage))
            => i = j]_vars

\* A second page with the key and window of the first was registered and
\* the reference returned is to the first.
C19_Witness ==
  /\ last.op = "RegisterPage" /\ last.arg.page.fBuffer = 2 /\ last.ret.fBuffer = 1
  /\ Len(pool) = 1 /\ pool[1].fRefCounter = 2

\* C20: Attach to a dataset whose header declares a feature flag the reader
\* does not understand (the test flag 137 is such a flag for every reader)
\* fails with an error that names an unknown flag of the header, that flag
\* if it is the only one; the reader has then decoded the flags and nothing
\* else, and exposes no descriptor.  Every Attach decodes the flags first and
\* succeeds when it understands them all.  After a failed Attach no field
\* and no page can be had from the source, and nothing but a write changes
\* the file, which holds the flags the builder had.
C20_UnknownFeatureFailsOpen ==
  [][/\ last'.op = "Attach" =>
          LET flags == file.fHeader.fFeatureFlags
              declared == {flags[i] : i \in 1..Len(flags)}
              unknown == declared \ pageSource.fKnown
          IN /\ pageSource'.fDecoded # <<>> /\ pageSource'.fDecoded[1] = "feature flags"
             /\ kFeatureFlagTest \in declared => unknown # {}
             /\ unknown # {} =>
                  /\ last'.res = ErrUnsupportedFeature
                  /\ last'.ret \in unknown
                  /\ unknown = {kFeatureFlagTest} => last'.ret = 137
                  /\ pageSource'.fDecoded = <<"feature flags">>
                  /\ pageSource'.fDescriptor = NoDescriptor
                  /\ pageSource'.fState = "failed"
             /\ unknown = {} =>
                  /\ last'.res = Ok
                  /\ pageSource'.fDescriptor = file.fHeader.fDescriptor
                  /\ pageSource'.fState = "attached"
     /\ (last'.op \in {"GetFieldDescriptor", "PopulatePage"} /\ pageSource.fState = "failed")
          => last'.res # Ok /\ last'.ret = NoRet
     /\ file' # file => last'.op = "WriteNTuple"
     /\ last'.op = "WriteNTuple" =>
          LET flags == file'.fHeader.fFeatureFlags
          IN /\ {flags[i] : i \in 1..Len(flags)} = descBuilder
             /\ Len(flags) = Cardinality(descBuilder)]_vars

\* The header declares the test flag alone, as in the compatibility test,
\* and Attach failed naming 137.
C20_Witness ==
  /\ last.op = "Attach" /\ last.res = ErrUnsupportedFeature /\ last.ret = 137
  /\ file.fHeader.fFeatureFlags = <<kFeatureFlagTest>>
  /\ pageSource.fState = "failed" /\ pageSource.fDescriptor = NoDescriptor

\* The mapping of target p is validated by the call and passes the checks
\* of kinds, types and array ancestors, so that its break points are looked
\* at.
AtBreakPoints(field, zero, fm, p) ==
  /\ \A i \in 1..Len(Descendants(field)) :
       (\E j \in 1..Len(Descendants(field)) : j > i /\ Descendants(field)[j] = p)
         => EnsureValidMapping(field, zero, Descendants(field)[i], fm) = {Ok}
  /\ p # <<>> => EnsureValidMapping(field, zero, <<>>, fm) = {Ok}
  /\ EnsureValidMapping(field, zero, p, fm) \cap {ErrStructural, ErrType, ErrArray} = {}

\* The break point of the field at p is a collection.
CollectionBreakPoint(tree, p) ==
  /\ fnBreakPoint(tree, p) # NullPtr
  /\ NodeAt(tree, fnBreakPoint(tree, p)).fStructure = kCollection

\* C22: when one of source and target is nested under a collection and the
\* other has no break point, EnsureValidMapping returns the structure
\* mismatch, whichever of the two it is; the call fails with it and the
\* process does not die.
C22_OneSidedBreakPoint ==
  [][\A m \in ModelSlots :
       ReachesAdd(m) =>
         LET field == last'.arg.field
             zero == models[m].fFieldZero
             fm == ResolvedMap(models[m], field, last'.arg.mapping)
             oneSided(p) ==
               \/ CollectionBreakPoint(zero, fm[p]) /\ fnBreakPoint(field, p) = NullPtr
               \/ CollectionBreakPoint(field, p) /\ fnBreakPoint(zero, fm[p]) = NullPtr
         IN \A p \in Targets(field) :
              (AtBreakPoints(field, zero, fm, p) /\ oneSided(p)) =>
                /\ EnsureValidMapping(field, zero, p, fm) = {ErrStructure}
                /\ last'.res = ErrStructure
                /\ ~crashed']_vars

\* The break point of the field at p is there and is not a collection.
OtherBreakPoint(tree, p) ==
  /\ fnBreakPoint(tree, p) # NullPtr
  /\ NodeAt(tree, fnBreakPoint(tree, p)).fStructure # kCollection

\* C23: a projected field with a mapping whose target, or whose source, has
\* a break point that is not a collection is rejected: the call returns a
\* failure and the model, its table of projected fields included, is as
\* before.
C23_BreakPointMustBeCollection ==
  [][\A m \in ModelSlots :
       ReachesAdd(m) =>
         LET field == last'.arg.field
             zero == models[m].fFieldZero
             fm == ResolvedMap(models[m], field, last'.arg.mapping)
         IN \A p \in Targets(field) :
              (/\ AtBreakPoints(field, zero, fm, p)
               /\ OtherBreakPoint(field, p) \/ OtherBreakPoint(zero, fm[p])) =>
                /\ last'.res \in {ErrSourceStructure, ErrTargetStructure, ErrStructure}
                /\ ~crashed'
                /\ models' = models]_vars

\* C24: a mapping whose source and target both have a collection as break
\* point is accepted exactly when the table of the call maps the target's
\* break point to the source's (the two are never the same field: one is
\* in the field being added, the other in the model); two collections not
\* mapped to each other make the call fail with the structure mismatch and
\* leave the model as it was.  A mapping with no break point on either side
\* is accepted.
C24_CollectionPath ==
  [][\A m \in ModelSlots :
       ReachesAdd(m) =>
         LET field == last'.arg.field
             zero == models[m].fFieldZero
             fm == ResolvedMap(models[m], field, last'.arg.mapping)
             both(p) == CollectionBreakPoint(field, p) /\ CollectionBreakPoint(zero, fm[p])
             mapped(p) == fm[fnBreakPoint(field, p)] = fnBreakPoint(zero, fm[p])
         IN /\ \A p \in Targets(field) :
                 AtBreakPoints(field, zero, fm, p) =>
                   /\ (both(p) /\ mapped(p)) => EnsureValidMapping(field, zero, p, fm) = {Ok}
                   /\ (both(p) /\ ~mapped(p)) =>
                        /\ EnsureValidMapping(field, zero, p, fm) = {ErrStructure}
                        /\ last'.res = ErrStructure
                        /\ models' = models
                   /\ (fnBreakPoint(field, p) = NullPtr /\ fnBreakPoint(zero, fm[p]) = NullPtr)
                        => EnsureValidMapping(field, zero, p, fm) = {Ok}
            /\ last'.res = Ok => \A p \in Targets(field) : both(p) => mapped(p)]_vars

\* The items of a projected vector mapped to r.v were to come from another
\* vector, r.w, and the call failed with the structure mismatch.
C24_Witness ==
  /\ last.op = "AddProjectedField" /\ last.res = ErrStructure
  /\ last.arg.field = VectorField("p", Float)
  /\ last.arg.mapping = SplitMapping(<<"r", "v">>, <<"r", "w", "_0">>)

\* The use counts of the pooled pages, by buffer.
UseCounts(entries) ==
  [b \in Buffers(entries) |-> entries[FindBuffer(entries, b)].fRefCounter]

C26_IdsAreFresh ==
  /\ \A i \in 1..Len(issued) : issued[i] # 0
  /\ \A i, j \in 1..Len(issued) : i < j => issued[i] < issued[j]
  /\ \A t, u \in ModelSlots :
       \A i \in 1..Len(threads[t].ids), j \in 1..Len(threads[u].ids) :
         threads[t].ids[i] = threads[u].ids[j] => (t = u /\ i = j)
  /\ \A t \in ModelSlots : Live(t) => models[t].fModelId # 0
  /\ \A t, u \in ModelSlots :
       (Live(t) /\ Live(u) /\ models[t].fModelId = models[u].fModelId) => t = u

\* Thread 1 is in Unfreeze and thread 2 in Create, both between their
\* GetNewModelId and their return; thread 2 drew its id first.
C26_Witness ==
  /\ threads[1] = [op |-> "Unfreeze", pc |-> "return", ids |-> <<3>>]
  /\ threads[2] = [op |-> "Create", pc |-> "return", ids |-> <<2>>]
  /\ issued = <<1, 2, 3>> /\ models[1].fModelId = 1

\* C21: EstimateWriteMemoryUsage changes nothing, and with the other
\* options as they are its result does not go down when the page buffer
\* budget goes up, nor when a field, and so its columns, is added to the
\* model.
C21_EstimateIsMonotone ==
  [][last'.op = "EstimateWriteMemoryUsage" =>
       LET model == models[last'.m]
           bytes == last'.ret
       IN /\ UNCHANGED <<modelVars, options>>
          /\ bytes = EstimateWriteMemoryUsageOf(model, options)
          /\ \A budget \in OptionValues.fPageBufferBudget :
               budget >= options.fPageBufferBudget =>
                 EstimateWriteMemoryUsageOf(model, [options EXCEPT !.fPageBufferBudget = budget])
                   >= bytes
          /\ \A f \in EstimateFields :
               AddFieldOutcome(model, f) = Ok =>
                 EstimateWriteMemoryUsageOf(AddFieldApply(model, f), options) >= bytes]_vars

\* C27: after every step the default entry of a model that has one holds one
\* value per top-level field of the field tree, in the order of the fields;
\* its schema id is the schema id of the model and its model id the model
\* id of the model, unless that is the zero of an update; an AddField that
\* fails leaves the entry as it was.
C27_DefaultEntryFollowsModel ==
  [][/\ \A m \in ModelSlots :
          (models'[m] # NoModel /\ models'[m].fDefaultEntry # NoEntry) =>
            LET model == models'[m]
                entry == model.fDefaultEntry
                subFields == model.fFieldZero.fSubFields
            IN /\ entry.fValues = [i \in 1..Len(subFields) |-> subFields[i].fName]
               /\ entry.fSchemaId = model.fSchemaId
               /\ model.fModelId # 0 => entry.fModelId = model.fModelId
     /\ (last'.op \in {"AddField", "UpdaterAddField"} /\ last'.res # Ok) =>
          \A m \in ModelSlots :
            models[m] # NoModel => /\ models'[m] # NoModel
                                   /\ models'[m].fDefaultEntry = models[m].fDefaultEntry]_vars
====
